---------------------------- MODULE Spec2Model ----------------------------
(***************************************************************************)
(* Urban Happiness Mapper: a model of the page scripts of the repository.  *)
(*                                                                         *)
(*   session app        src/app.js 13-392 (same code: src/unnamed/part_001)*)
(*   local-storage app  src/app.js 394-725                                 *)
(*   form page          src/unnamed/part_002                               *)
(*   viewer             src/unnamed/part_000                               *)
(*                                                                         *)
(* Every page runs on one UI thread.  A handler runs to its first `await`  *)
(* in one step; the continuation after the await is a second step, taken   *)
(* when the remote call settles.  Calls in flight settle in any order.     *)
(*                                                                         *)
(* Text is a sequence of one-character strings.  A JavaScript number is an *)
(* integer of the model (coordinates are in whole units); the viewer, which*)
(* converts what its rows hold, counts in tenths.                          *)
(***************************************************************************)
EXTENDS Integers, Sequences, FiniteSets, TLC

VARIABLES
  page,            \* which page's script runs: "session", "form", "local", "viewer"
  supabase,        \* TRUE when window.supabase.createClient gave a client
  now,             \* the value Date.now() returns
  center,          \* map.getCenter()
  form,            \* the values of the form's input elements
  pendingInserts,  \* submit handlers suspended at `await ...insert(...)`
  clicks,          \* button clicks and form submits handled so far
  out,             \* what the last step showed: event, alert, download, error
  \* session app
  rows,            \* `let rows`
  markers,         \* the circle markers on markersLayer
  cards,           \* the rows of the cards in #list
  count,           \* the number shown in #count
  pendingDeletes,  \* delete handlers suspended at `await ...delete()...`
  nextId,          \* the identifier the backend assigns next
  \* form page
  isSubmitting,    \* `let isSubmitting`
  btnSubmit,       \* the submit button: disabled, textContent
  status,          \* statusDot.dataset.state and statusText.textContent
  baseStatus,      \* `let baseStatus`
  statusTimer,     \* flashStatus's timer: the handle kept, the timeouts pending
  submitNotice,    \* #submitNotice: visible, textContent, dataset.tone
  noticeTimer,     \* showSubmitNotice's timer, likewise
  labelTimers,     \* pending timeouts that restore the button's label
  invalid,         \* the is-invalid class of #ageGroup and #gender
  locating,        \* TRUE while getCurrentPosition has not called back
  \* local-storage app
  storage,         \* localStorage: the item stored under STORAGE_KEY
  featureCollection, \* `let featureCollection`
  markersLayer,    \* the circle markers on markersLayer
  listEl,          \* the cards in #list
  countEl,         \* the text of #count
  uuids,           \* identifiers crypto.randomUUID() has returned
  \* viewer
  statusDot,       \* statusDot.dataset.state and statusText.textContent
  viewerRows,      \* `const rows` of the loadRows call that rendered last
  viewerMarkers,   \* the circle markers on the viewer's markersLayer
  viewerCards,     \* the cards in the viewer's #list
  viewerCount,     \* the text of the viewer's #count
  statTotal,       \* the text of #statTotal
  statAvgHappy,    \* the text of #statAvgHappy
  statAvgGreen,    \* the text of #statAvgGreen
  lastSync,        \* the time shown in #lastSync, 0 when none is shown
  pendingLoads,    \* loadRows calls suspended at `await ...select(...)`
  settledLoads,    \* what the select of each loadRows call resumed has returned
  \* crosshair
  rafPending,      \* `let rafPending`
  rafCallbacks,    \* callbacks requestAnimationFrame holds for the next frame
  syncs,           \* runs of syncCenterSelection since the last frame
  centerEl         \* the centre shown in #centerLat and #centerLng

sharedVars == <<page, supabase, now, center, form, pendingInserts, clicks, out>>

sessionVars == <<rows, markers, cards, count, pendingDeletes, nextId>>

formVars ==
  <<isSubmitting, btnSubmit, status, baseStatus, statusTimer, submitNotice,
    noticeTimer, labelTimers, invalid, locating>>

localVars ==
  <<storage, featureCollection, markersLayer, listEl, countEl, uuids>>

viewerVars ==
  <<statusDot, viewerRows, viewerMarkers, viewerCards, viewerCount, statTotal,
    statAvgHappy, statAvgGreen, lastSync, pendingLoads, settledLoads>>

frameVars == <<rafPending, rafCallbacks, syncs, centerEl>>

\* the variables of the pages' scripts
scriptVars == <<sessionVars, formVars, localVars, viewerVars, frameVars>>

vars == <<sharedVars, scriptVars>>

----------------------------------------------------------------------------
(* Bounds of the model. *)

\* button clicks (submit, delete, finish survey, export) in a behaviour
MaxClicks == 2
\* clock ticks after page load
MaxTicks == 1
\* Date.now() at page load
StartTime == 100

\* runs of syncCenterSelection counted between two frames
MaxSyncs == 3

----------------------------------------------------------------------------
(* Text. *)

Whitespace == {" ", "\n"}

RECURSIVE trimStart(_)
\* String.prototype.trim, the leading part
trimStart(s) ==
  IF s # <<>> /\ Head(s) \in Whitespace THEN trimStart(Tail(s)) ELSE s

RECURSIVE trimEnd(_)
\* String.prototype.trim, the trailing part
trimEnd(s) ==
  IF s # <<>> /\ s[Len(s)] \in Whitespace
    THEN trimEnd(SubSeq(s, 1, Len(s) - 1))
    ELSE s

\* String.prototype.trim as the handlers use it: (value || "").trim()
trim(s) == trimEnd(trimStart(s))

DigitChars == <<"0", "1", "2", "3", "4", "5", "6", "7", "8", "9">>

RECURSIVE digits(_)
\* the decimal digits of a natural number
digits(n) ==
  IF n < 10 THEN <<DigitChars[n + 1]>>
  ELSE digits(n \div 10) \o <<DigitChars[(n % 10) + 1]>>

\* String(n) for an integer
numberToString(n) == IF n < 0 THEN <<"-">> \o digits(-n) ELSE digits(n)

\* Date.prototype.toISOString of the time t: the digits of t and "Z" stand
\* for yyyy-mm-ddThh:mm:ss.sssZ
toISOString(t) == <<"T">> \o digits(t) \o <<"Z">>

RECURSIVE digitsValue(_, _)
\* the number a sequence of digits denotes, -1 when one is no digit
digitsValue(s, acc) ==
  IF s = <<>> THEN acc
  ELSE IF \E d \in 1..10 : DigitChars[d] = Head(s)
    THEN digitsValue(Tail(s),
           acc * 10 + (CHOOSE d \in 1..10 : DigitChars[d] = Head(s)) - 1)
    ELSE -1

\* new Date(text).getTime() for a text toISOString produced; -1 stands for NaN
\* (Invalid Date)
parseDate(s) ==
  IF Len(s) >= 3 /\ s[1] = "T" /\ s[Len(s)] = "Z"
    THEN digitsValue(SubSeq(s, 2, Len(s) - 1), 0)
    ELSE -1

RECURSIVE join(_, _)
\* Array.prototype.join
join(parts, sep) ==
  IF parts = <<>> THEN <<>>
  ELSE IF Len(parts) = 1 THEN parts[1]
  ELSE parts[1] \o sep \o join(Tail(parts), sep)

\* replace leaving every double quote single
replaceQuotes_Kept(s) == s

RECURSIVE replaceQuotes(_)
\* s.replace(/"/g, '""')
replaceQuotes(s) ==
  IF s = <<>> THEN <<>>
  ELSE IF Head(s) = "\"" THEN <<"\"", "\"">> \o replaceQuotes(Tail(s))
  ELSE <<Head(s)>> \o replaceQuotes(Tail(s))

\* esc leaving the value as it is
esc_Unquoted(s) == s

\* toCSV's esc, applied to String(v ?? "")
esc(s) == <<"\"">> \o replaceQuotes(s) \o <<"\"">>

----------------------------------------------------------------------------
(* JavaScript values as JSON.parse builds them and JSON.stringify reads them. *)
(* An object is the sequence of its members in insertion order.             *)

JNull == [t |-> "null"]

\* the value of a missing property
JUndefined == [t |-> "undefined"]

JBool(b) == [t |-> "bool", b |-> b]

JNum(n) == [t |-> "num", n |-> n]

JStr(s) == [t |-> "str", s |-> s]

JArr(xs) == [t |-> "arr", a |-> xs]

JObj(ms) == [t |-> "obj", m |-> ms]

\* one member of an object
Member(k, x) == [k |-> k, x |-> x]

\* obj[k] = x on the members ms: a key already present keeps its position
putMember(ms, k, x) ==
  IF \E i \in 1..Len(ms) : ms[i].k = k
    THEN [i \in 1..Len(ms) |-> IF ms[i].k = k THEN Member(k, x) ELSE ms[i]]
    ELSE Append(ms, Member(k, x))

\* v is null or undefined: reading a property of it throws a TypeError
Nullish(v) == v.t \in {"null", "undefined"}

\* v.k: the member's value, undefined when v has no member k
Prop(v, k) ==
  IF v.t = "obj" /\ \E i \in 1..Len(v.m) : v.m[i].k = k
    THEN v.m[CHOOSE i \in 1..Len(v.m) : v.m[i].k = k].x
    ELSE JUndefined

RECURSIVE quoteJSON(_)
\* the characters of a string inside a JSON string literal
quoteJSON(s) ==
  IF s = <<>> THEN <<>>
  ELSE (CASE Head(s) = "\"" -> <<"\\", "\"">>
          [] Head(s) = "\\" -> <<"\\", "\\">>
          [] Head(s) = "\n" -> <<"\\", "n">>
          [] OTHER -> <<Head(s)>>) \o quoteJSON(Tail(s))

RECURSIVE stringify(_)
RECURSIVE stringifyElements(_, _)
RECURSIVE stringifyMembers(_, _)

\* JSON.stringify(v), without indentation
stringify(v) ==
  CASE v.t = "null" -> <<"n", "u", "l", "l">>
    [] v.t = "bool" -> IF v.b THEN <<"t", "r", "u", "e">>
                       ELSE <<"f", "a", "l", "s", "e">>
    [] v.t = "num" -> numberToString(v.n)
    [] v.t = "str" -> <<"\"">> \o quoteJSON(v.s) \o <<"\"">>
    [] v.t = "arr" -> <<"[">> \o stringifyElements(v.a, 1) \o <<"]">>
    [] v.t = "obj" -> <<"{">> \o stringifyMembers(v.m, 1) \o <<"}">>

\* the elements of an array from the i-th on, separated by commas
stringifyElements(xs, i) ==
  IF i > Len(xs) THEN <<>>
  ELSE (IF i > 1 THEN <<",">> ELSE <<>>) \o stringify(xs[i])
         \o stringifyElements(xs, i + 1)

\* the members of an object from the i-th on, separated by commas
stringifyMembers(ms, i) ==
  IF i > Len(ms) THEN <<>>
  ELSE (IF i > 1 THEN <<",">> ELSE <<>>)
         \o <<"\"">> \o quoteJSON(ms[i].k) \o <<"\"", ":">> \o stringify(ms[i].x)
         \o stringifyMembers(ms, i + 1)

\* the result of a failed parse
NoParse == [ok |-> FALSE, v |-> JNull, next |-> 0]

Parsed(v, next) == [ok |-> TRUE, v |-> v, next |-> next]

RECURSIVE skipSpace(_, _)
\* the first position from i on that holds no white space
skipSpace(s, i) ==
  IF i <= Len(s) /\ s[i] \in Whitespace THEN skipSpace(s, i + 1) ELSE i

IsDigit(c) == \E d \in 1..10 : DigitChars[d] = c

RECURSIVE digitsEnd(_, _)
\* the first position from i on that holds no digit
digitsEnd(s, i) ==
  IF i <= Len(s) /\ IsDigit(s[i]) THEN digitsEnd(s, i + 1) ELSE i

\* a JSON number (an integer) at position i
parseNumber(s, i) ==
  LET from == IF s[i] = "-" THEN i + 1 ELSE i
      to == digitsEnd(s, from)
  IN  IF to = from \/ (to - from > 1 /\ s[from] = "0") THEN NoParse
      ELSE LET n == digitsValue(SubSeq(s, from, to - 1), 0)
           IN  Parsed(JNum(IF from > i THEN 0 - n ELSE n), to)

RECURSIVE parseChars(_, _, _)
\* the characters of a string literal from i to its closing quote
parseChars(s, i, acc) ==
  IF i > Len(s) \/ s[i] = "\n" THEN NoParse
  ELSE IF s[i] = "\"" THEN Parsed(JStr(acc), i + 1)
  ELSE IF s[i] = "\\"
    THEN IF i + 1 > Len(s) THEN NoParse
         ELSE IF s[i + 1] \in {"\"", "\\"}
           THEN parseChars(s, i + 2, Append(acc, s[i + 1]))
         ELSE IF s[i + 1] = "n" THEN parseChars(s, i + 2, Append(acc, "\n"))
         ELSE NoParse
  ELSE parseChars(s, i + 1, Append(acc, s[i]))

RECURSIVE parseValue(_, _)
RECURSIVE parseElements(_, _, _)
RECURSIVE parseMembers(_, _, _)

\* a JSON value at position i, white space before it skipped
parseValue(s, i) ==
  LET j == skipSpace(s, i)
  IN  IF j > Len(s) THEN NoParse
      ELSE IF s[j] = "\"" THEN parseChars(s, j + 1, <<>>)
      ELSE IF s[j] = "-" \/ IsDigit(s[j]) THEN parseNumber(s, j)
      ELSE IF s[j] = "n"
        THEN IF j + 3 <= Len(s) /\ SubSeq(s, j, j + 3) = <<"n", "u", "l", "l">>
               THEN Parsed(JNull, j + 4)
               ELSE NoParse
      ELSE IF s[j] = "t"
        THEN IF j + 3 <= Len(s) /\ SubSeq(s, j, j + 3) = <<"t", "r", "u", "e">>
               THEN Parsed(JBool(TRUE), j + 4)
               ELSE NoParse
      ELSE IF s[j] = "f"
        THEN IF /\ j + 4 <= Len(s)
                /\ SubSeq(s, j, j + 4) = <<"f", "a", "l", "s", "e">>
               THEN Parsed(JBool(FALSE), j + 5)
               ELSE NoParse
      ELSE IF s[j] = "["
        THEN LET k == skipSpace(s, j + 1)
             IN  IF k <= Len(s) /\ s[k] = "]" THEN Parsed(JArr(<<>>), k + 1)
                 ELSE parseElements(s, j + 1, <<>>)
      ELSE IF s[j] = "{"
        THEN LET k == skipSpace(s, j + 1)
             IN  IF k <= Len(s) /\ s[k] = "}" THEN Parsed(JObj(<<>>), k + 1)
                 ELSE parseMembers(s, j + 1, <<>>)
      ELSE NoParse

\* the elements of an array from position i to its closing bracket
parseElements(s, i, acc) ==
  LET e == parseValue(s, i)
  IN  IF ~e.ok THEN NoParse
      ELSE LET k == skipSpace(s, e.next)
           IN  IF k > Len(s) THEN NoParse
               ELSE IF s[k] = "," THEN parseElements(s, k + 1, Append(acc, e.v))
               ELSE IF s[k] = "]" THEN Parsed(JArr(Append(acc, e.v)), k + 1)
               ELSE NoParse

\* the members of an object from position i to its closing brace
parseMembers(s, i, acc) ==
  LET j == skipSpace(s, i)
  IN  IF j > Len(s) \/ s[j] # "\"" THEN NoParse
      ELSE LET key == parseChars(s, j + 1, <<>>)
           IN  IF ~key.ok THEN NoParse
               ELSE LET c == skipSpace(s, key.next)
                    IN  IF c > Len(s) \/ s[c] # ":" THEN NoParse
                        ELSE LET e == parseValue(s, c + 1)
                             IN  IF ~e.ok THEN NoParse
                                 ELSE LET k == skipSpace(s, e.next)
                                          ms == putMember(acc, key.v.s, e.v)
                                      IN  IF k > Len(s) THEN NoParse
                                          ELSE IF s[k] = ","
                                            THEN parseMembers(s, k + 1, ms)
                                          ELSE IF s[k] = "}"
                                            THEN Parsed(JObj(ms), k + 1)
                                          ELSE NoParse

\* JSON.parse(text): ok is FALSE when it throws a SyntaxError
parse(text) ==
  LET r == parseValue(text, 1)
  IN  IF r.ok /\ skipSpace(text, r.next) = Len(text) + 1 THEN r ELSE NoParse

----------------------------------------------------------------------------
(* What the user can enter, and where the map can be. *)

\* L.map(...).setView([47.07642, 15.436907], 12), in whole units
DEFAULT_CENTER == [lat |-> 47, lng |-> 15]

Centers == {DEFAULT_CENTER, [lat |-> -33, lng |-> 151]}

\* the form elements' values when the page has loaded
EmptyForm ==
  [placeName |-> <<>>, happy |-> 3, greeen |-> 3, comment |-> <<>>,
   age_group |-> <<>>, gender |-> <<>>]

\* form fillings the user enters: a place name with blanks around it and a
\* comment holding a line break, or the ratings and the demographic fields
FormInputs ==
  { [placeName |-> <<" ", "P", "\"">>, happy |-> 3, greeen |-> 3,
     comment |-> <<",", "\n", "b", " ">>, age_group |-> <<>>, gender |-> <<>>],
    [placeName |-> <<>>, happy |-> 5, greeen |-> 2,
     comment |-> <<>>, age_group |-> <<"1", "8", "-", "2", "4">>,
     gender |-> <<"f">>] }

\* a filling of the form page that leaves the gender open
PartialInputs ==
  { [placeName |-> <<>>, happy |-> 5, greeen |-> 2, comment |-> <<>>,
     age_group |-> <<"1", "8", "-", "2", "4">>, gender |-> <<>>] }

\* the fillings the user can enter on the page
Fillings == IF page = "form" THEN FormInputs \cup PartialInputs ELSE FormInputs

\* how a remote call settles: a result without error, a result carrying an
\* error, or a rejected promise
Outcomes == {"ok", "error", "throw"}

\* nothing shown by a step
Quiet(event) ==
  [event |-> event, alert |-> "", download |-> <<>>, error |-> ""]

----------------------------------------------------------------------------
(* Session app: the views. *)

\* Number.isFinite(Number(v)) for the numbers of the model
isFinite(v) == v \in Int

RECURSIVE renderMarkersOf(_)
\* renderMarkers: one circle marker per row with finite coordinates
renderMarkersOf(rs) ==
  IF rs = <<>> THEN <<>>
  ELSE LET row == Head(rs)
           rest == renderMarkersOf(Tail(rs))
       IN  IF ~isFinite(row.lat) \/ ~isFinite(row.lng)
             THEN rest
             ELSE <<[lat |-> row.lat, lng |-> row.lng, id |-> row.id]>> \o rest

\* renderList: the count and one card per row, in the order of rows
renderListOf(rs) == [count |-> Len(rs), cards |-> rs]

----------------------------------------------------------------------------
(* Session app: submit. *)

\* btnSubmit click handler, the values read before the await
SubmitValues ==
  [placeName |-> trim(form.placeName),
   lat |-> center.lat,
   lng |-> center.lng,
   happy |-> form.happy,
   greeen |-> form.greeen,
   comment |-> trim(form.comment),
   age_group |-> form.age_group,
   gender |-> form.gender]

\* a handler suspended at the insert: the values it read, and (kept for the
\* properties only) the form and the centre as they were when it read them
Suspended == [req |-> clicks + 1, values |-> SubmitValues, read |-> form]

\* data?.[0]?.id || Date.now(): data is <<>> for null, else the returned rows
newRowId(data) ==
  IF data # <<>> /\ data[1].id # 0 THEN data[1].id ELSE now

\* the row the handler builds after a successful insert
newRow(p, data) ==
  [id |-> newRowId(data),
   timestamp |-> toISOString(now),
   placeName |-> p.placeName,
   lat |-> p.lat,
   lng |-> p.lng,
   happy |-> p.happy,
   greeen |-> p.greeen,
   comment |-> p.comment,
   age_group |-> p.age_group,
   gender |-> p.gender]

\* rows.push(newRow) in place of rows.unshift(newRow)
unshift_AsPush(rs, row) == rs \o <<row>>

\* rows.unshift(newRow)
unshift(rs, row) == <<row>> \o rs

\* the click handler without `if (!supabase) return`
SubmitAccepted_Always == TRUE

\* whether the click handler goes on to the insert: `if (!supabase) return`
SubmitAccepted == supabase

\* btnSubmit click handler up to the await: without a client it alerts and
\* returns, else it reads the form and the map centre and issues the insert
SubmitClick ==
  /\ page = "session"
  /\ clicks < MaxClicks
  /\ clicks' = clicks + 1
  /\ IF ~SubmitAccepted
       THEN /\ out' = [Quiet("submitRefused") EXCEPT
                         !.alert = "Supabase not available."]
            /\ UNCHANGED pendingInserts
       ELSE /\ pendingInserts' = pendingInserts \cup {Suspended}
            /\ out' = Quiet("submitClick")
  /\ UNCHANGED <<page, supabase, now, center, form, sessionVars, formVars,
                 localVars,
                 viewerVars, frameVars>>

\* SubmitCommit adding the row before the insert's result is looked at
SubmitCommit_Optimistic(p, outcome, data) ==
  unshift(rows, newRow(p.values, data))

\* the rows the handler holds after the await: the try block on success, the
\* catch block otherwise
SubmitCommit(p, outcome, data) ==
  IF outcome = "ok" THEN unshift(rows, newRow(p.values, data)) ELSE rows

\* the place name and comment fields after the await: cleared in the try block
SubmitFields(outcome) ==
  IF outcome = "ok"
    THEN [form EXCEPT !.placeName = <<>>, !.comment = <<>>]
    ELSE form

\* btnSubmit click handler after the await.  On success the backend has
\* assigned nextId and returns the row (withData) or null.
InsertSettle(p, outcome, withData) ==
  /\ page = "session"
  /\ pendingInserts' = pendingInserts \ {p}
  /\ rows' = SubmitCommit(p, outcome,
                          IF withData THEN <<[id |-> nextId]>> ELSE <<>>)
  /\ form' = SubmitFields(outcome)
  /\ IF outcome = "ok"
       THEN /\ nextId' = nextId + 1
            /\ markers' = renderMarkersOf(rows')
            /\ cards' = renderListOf(rows').cards
            /\ count' = renderListOf(rows').count
            /\ out' = Quiet("submitSaved")
       ELSE /\ out' = [Quiet("submitFailed") EXCEPT
                         !.alert = "Error saving submission"]
            /\ UNCHANGED <<nextId, markers, cards, count>>
  /\ UNCHANGED <<page, supabase, now, center, clicks, pendingDeletes, formVars,
                 localVars,
                 viewerVars, frameVars>>

----------------------------------------------------------------------------
(* Session app: delete. *)

\* rows.findIndex(r => r.id === id): 0 stands for -1
findIndex(rs, id) ==
  IF \E i \in 1..Len(rs) : rs[i].id = id
    THEN CHOOSE i \in 1..Len(rs) :
           rs[i].id = id /\ \A j \in 1..(i - 1) : rs[j].id # id
    ELSE 0

\* rows.splice(index, 1)
splice(rs, index) == SubSeq(rs, 1, index - 1) \o SubSeq(rs, index + 1, Len(rs))

\* the delete handler from the findIndex on
removeRow(rs, id) ==
  IF findIndex(rs, id) > 0 THEN splice(rs, findIndex(rs, id)) ELSE rs

\* DeleteCommit without `if (error) throw error` and with the removal outside
\* the try block
DeleteCommit_Unchecked(row, outcome) == removeRow(rows, row.id)

\* the rows the delete handler holds when it ends: the try block on success,
\* the catch block otherwise
DeleteCommit(row, outcome) ==
  IF outcome = "ok" THEN removeRow(rows, row.id) ELSE rows

\* delete click handler of card i up to the await: confirm, then with a client
\* the remote delete is issued, without one the row is removed at once
DeleteClick(i, confirmed) ==
  /\ page = "session"
  /\ i \in 1..Len(cards)
  /\ clicks < MaxClicks
  /\ clicks' = clicks + 1
  /\ IF ~confirmed
       THEN /\ out' = Quiet("deleteCancelled")
            /\ UNCHANGED <<rows, markers, cards, count, pendingDeletes>>
       ELSE IF supabase
         THEN /\ pendingDeletes' =
                   pendingDeletes \cup {[req |-> clicks + 1, row |-> cards[i]]}
              /\ out' = Quiet("deleteClick")
              /\ UNCHANGED <<rows, markers, cards, count>>
         ELSE /\ rows' = DeleteCommit(cards[i], "ok")
              /\ markers' = renderMarkersOf(rows')
              /\ cards' = renderListOf(rows').cards
              /\ count' = renderListOf(rows').count
              /\ out' = Quiet("deleted")
              /\ UNCHANGED pendingDeletes
  /\ UNCHANGED <<page, supabase, now, center, form, pendingInserts, nextId,
                 formVars, localVars,
                 viewerVars, frameVars>>

\* delete click handler after the await
DeleteSettle(d, outcome) ==
  /\ page = "session"
  /\ pendingDeletes' = pendingDeletes \ {d}
  /\ rows' = DeleteCommit(d.row, outcome)
  /\ IF outcome = "ok"
       THEN /\ markers' = renderMarkersOf(rows')
            /\ cards' = renderListOf(rows').cards
            /\ count' = renderListOf(rows').count
            /\ out' = Quiet("deleted")
       ELSE /\ out' = [Quiet("deleteFailed") EXCEPT !.alert = "Delete failed"]
            /\ UNCHANGED <<markers, cards, count>>
  /\ UNCHANGED <<page, supabase, now, center, form, pendingInserts, clicks,
                 nextId, formVars, localVars,
                 viewerVars, frameVars>>

----------------------------------------------------------------------------
(* Session app: CSV export and Finish Survey. *)

\* toCSV's headers, joined by ","
csvHeader ==
  << "i","d",",", "t","i","m","e","s","t","a","m","p",",",
     "p","l","a","c","e","N","a","m","e",",", "l","a","t",",", "l","n","g",",",
     "h","a","p","p","y",",", "g","r","e","e","e","n",",",
     "c","o","m","m","e","n","t",",",
     "a","g","e","_","g","r","o","u","p",",", "g","e","n","d","e","r" >>

\* one data line of toCSV
csvLine(r) ==
  join(<< esc(numberToString(r.id)),
          esc(toISOString(parseDate(r.timestamp))),
          esc(r.placeName),
          esc(numberToString(r.lat)),
          esc(numberToString(r.lng)),
          esc(numberToString(r.happy)),
          esc(numberToString(r.greeen)),
          esc(r.comment),
          esc(r.age_group),
          esc(r.gender) >>, <<",">>)

\* toCSV of the session app: the header, then one line per record
toCSV(data) ==
  join(<<csvHeader>> \o [i \in 1..Len(data) |-> csvLine(data[i])], <<"\n">>)

\* a Finish Survey handler that empties the store before it exports
FinishSurvey_ResetFirst ==
  /\ page = "session"
  /\ clicks < MaxClicks
  /\ clicks' = clicks + 1
  /\ rows' = <<>>
  /\ markers' = <<>>
  /\ cards' = renderListOf(<<>>).cards
  /\ count' = renderListOf(<<>>).count
  /\ out' = [Quiet("finishSurvey") EXCEPT !.download = toCSV(rows')]
  /\ center' = DEFAULT_CENTER
  /\ UNCHANGED <<page, supabase, now, form, pendingInserts, pendingDeletes,
                 nextId, formVars, localVars,
                 viewerVars, frameVars>>

\* btnFinishSurvey click handler: export the rows, then empty the store,
\* clear the markers, render the list and reset the view
FinishSurvey ==
  /\ page = "session"
  /\ clicks < MaxClicks
  /\ clicks' = clicks + 1
  /\ out' = [Quiet("finishSurvey") EXCEPT !.download = toCSV(rows)]
  /\ rows' = <<>>
  /\ markers' = <<>>
  /\ cards' = renderListOf(<<>>).cards
  /\ count' = renderListOf(<<>>).count
  /\ center' = DEFAULT_CENTER
  /\ UNCHANGED <<page, supabase, now, form, pendingInserts, pendingDeletes,
                 nextId, formVars, localVars,
                 viewerVars, frameVars>>

----------------------------------------------------------------------------
(* The user and the clock, on every page. *)

\* the user fills in the form; on the form page the selects' change
\* listeners call setInvalid(el, false)
FillForm(f) ==
  /\ page \in {"session", "form"}
  /\ form' = f
  /\ invalid' =
       [age_group |-> invalid.age_group /\ f.age_group = form.age_group,
        gender |-> invalid.gender /\ f.gender = form.gender]
  /\ out' = Quiet("user")
  /\ UNCHANGED <<page, supabase, now, center, pendingInserts, clicks,
                 sessionVars, isSubmitting, btnSubmit, status, baseStatus,
                 statusTimer, submitNotice, noticeTimer, labelTimers, locating,
                 localVars,
                 viewerVars, frameVars>>

\* the user drags the map
MoveMap(c) ==
  /\ page = "local" => featureCollection # JUndefined
  /\ c # center
  /\ center' = c
  /\ out' = Quiet("user")
  /\ UNCHANGED <<page, supabase, now, form, pendingInserts, clicks, scriptVars>>

\* a millisecond passes (the local-storage app's submit handler takes the
\* time that has passed as an input)
Tick ==
  /\ page \in {"session", "form"}
  /\ now < StartTime + MaxTicks
  /\ now' = now + 1
  /\ out' = Quiet("user")
  /\ UNCHANGED <<page, supabase, center, form, pendingInserts, clicks, scriptVars>>

----------------------------------------------------------------------------
(* Form page: status line, notice, submit. *)

\* const submitLabel = btnSubmit?.textContent || "Submit point"
submitLabel == "Submit point"

Unavailable == [state |-> "error", text |-> "Data service unavailable"]

ValidationWarning ==
  [state |-> "warn",
   text |-> "Select age group and gender (or choose Prefer not to say)."]

\* boot, `if (!supabase) ... else ...`: the base status and the button
BootStatus == IF ~supabase THEN Unavailable
              ELSE [state |-> "ok", text |-> "Ready to submit"]

\* boot: `if (btnSubmit) btnSubmit.disabled = true` without a client
BootButton == [disabled |-> ~supabase, text |-> submitLabel]

\* SubmitDecision with the validation looking at the age group only
SubmitDecision_AgeOnly ==
  IF isSubmitting THEN "ignored"
  ELSE IF ~supabase THEN "unavailable"
  ELSE IF form.age_group = <<>> THEN "invalid"
  ELSE "insert"

\* a timer variable before any timeout was set: null, nothing pending
NoTimer == [id |-> 0, pending |-> {}]

\* a helper that sets the new timeout without clearing the one it holds
clearTimeout_Skipped(timer) == timer.pending

\* if (timer) clearTimeout(timer): the timeouts pending afterwards
clearTimeout(timer) == timer.pending \ {timer.id}

\* flashStatus and showSubmitNotice on their timer: the timeout held is
\* cleared, a new one is set and its handle kept
restart(timer) ==
  [id |-> timer.id + 1, pending |-> clearTimeout(timer) \cup {timer.id + 1}]

\* handleSubmit's guards and validation: what becomes of a submit event
SubmitDecision ==
  IF isSubmitting THEN "ignored"
  ELSE IF ~supabase THEN "unavailable"
  ELSE IF form.age_group = <<>> \/ form.gender = <<>> THEN "invalid"
  ELSE "insert"

\* the form's submit listener: handleSubmit up to its return or its await
HandleSubmit ==
  /\ page = "form"
  /\ clicks < MaxClicks
  /\ clicks' = clicks + 1
  /\ LET decision == SubmitDecision
     IN  /\ out' = Quiet(decision)
         \* flashStatus(state, text): setStatus, then a fresh timeout
         /\ status' = CASE decision = "unavailable" -> Unavailable
                        [] decision = "invalid" -> ValidationWarning
                        [] OTHER -> status
         /\ statusTimer' = IF decision \in {"unavailable", "invalid"}
                              THEN restart(statusTimer)
                              ELSE statusTimer
         \* showSubmitNotice(message, "warn")
         /\ submitNotice' =
              IF decision = "unavailable"
                THEN [visible |-> TRUE, tone |-> "warn",
                      text |-> "We could not submit right now. Please try again later."]
                ELSE submitNotice
         /\ noticeTimer' = IF decision = "unavailable"
                              THEN restart(noticeTimer)
                              ELSE noticeTimer
         \* setInvalid(ageGroupEl, ageInvalid); setInvalid(genderEl, genderInvalid)
         /\ invalid' =
              IF decision \in {"invalid", "insert"}
                THEN [age_group |-> form.age_group = <<>>,
                      gender |-> form.gender = <<>>]
                ELSE invalid
         /\ isSubmitting' = (isSubmitting \/ decision = "insert")
         /\ btnSubmit' =
              IF decision = "insert"
                THEN [disabled |-> TRUE, text |-> "Saving..."]
                ELSE btnSubmit
         /\ pendingInserts' =
              IF decision = "insert"
                THEN pendingInserts \cup {Suspended}
                ELSE pendingInserts
  /\ UNCHANGED <<page, supabase, now, center, form, baseStatus, labelTimers,
                 locating, sessionVars, localVars,
                 viewerVars, frameVars>>

\* a handler whose finally block does not run when the insert failed
Finally_OnSuccessOnly(outcome) ==
  IF outcome = "ok"
    THEN [isSubmitting |-> FALSE,
          btnSubmit |-> [disabled |-> FALSE, text |-> "Submitted!"]]
    ELSE [isSubmitting |-> isSubmitting, btnSubmit |-> btnSubmit]

\* the finally block of handleSubmit, which runs for every outcome
Finally(outcome) ==
  [isSubmitting |-> FALSE,
   btnSubmit |-> [disabled |-> FALSE, text |-> "Submitted!"]]

\* handleSubmit after the await: try or catch, then finally
FormInsertSettle(p, outcome) ==
  /\ page = "form"
  /\ pendingInserts' = pendingInserts \ {p}
  /\ IF outcome = "ok"
       THEN /\ status' = [state |-> "ok", text |-> "Submission saved"]
            /\ submitNotice' = [visible |-> TRUE, tone |-> "ok",
                                text |-> "Thanks! Your response is saved."]
            /\ form' = [form EXCEPT !.placeName = <<>>, !.comment = <<>>]
            /\ out' = Quiet("submitSaved")
       ELSE /\ status' = [state |-> "error", text |-> "Submission failed"]
            /\ submitNotice' =
                 [visible |-> TRUE, tone |-> "warn",
                  text |-> "We could not submit right now. Please try again."]
            /\ form' = form
            /\ out' = Quiet("submitFailed")
  /\ statusTimer' = restart(statusTimer)
  /\ noticeTimer' = restart(noticeTimer)
  /\ btnSubmit' = Finally(outcome).btnSubmit
  /\ labelTimers' = labelTimers + 1
  /\ isSubmitting' = Finally(outcome).isSubmitting
  /\ UNCHANGED <<page, supabase, now, center, clicks, baseStatus, invalid,
                 locating, sessionVars, localVars,
                 viewerVars, frameVars>>

\* the timeout of flashStatus fires: setStatus(baseStatus.state, baseStatus.text)
StatusTimeout(handle) ==
  /\ page = "form"
  /\ handle \in statusTimer.pending
  /\ statusTimer' = [statusTimer EXCEPT !.pending = @ \ {handle}]
  /\ status' = baseStatus
  /\ out' = Quiet("timer")
  /\ UNCHANGED <<page, supabase, now, center, form, pendingInserts, clicks,
                 isSubmitting, btnSubmit, baseStatus, submitNotice, noticeTimer,
                 labelTimers, invalid, locating, sessionVars, localVars,
                 viewerVars, frameVars>>

\* the timeout of showSubmitNotice fires
NoticeTimeout(handle) ==
  /\ page = "form"
  /\ handle \in noticeTimer.pending
  /\ noticeTimer' = [noticeTimer EXCEPT !.pending = @ \ {handle}]
  /\ submitNotice' = [submitNotice EXCEPT !.visible = FALSE]
  /\ out' = Quiet("timer")
  /\ UNCHANGED <<page, supabase, now, center, form, pendingInserts, clicks,
                 isSubmitting, btnSubmit, status, baseStatus, statusTimer,
                 labelTimers, invalid, locating, sessionVars, localVars,
                 viewerVars, frameVars>>

\* a timeout set in handleSubmit's finally fires: the label is restored
LabelTimeout ==
  /\ page = "form"
  /\ labelTimers > 0
  /\ labelTimers' = labelTimers - 1
  /\ btnSubmit' = [btnSubmit EXCEPT !.text = submitLabel]
  /\ out' = Quiet("timer")
  /\ UNCHANGED <<page, supabase, now, center, form, pendingInserts, clicks,
                 isSubmitting, status, baseStatus, statusTimer, submitNotice,
                 noticeTimer, invalid, locating, sessionVars, localVars,
                 viewerVars, frameVars>>

\* btnCenterMe click handler: without geolocation a warning is flashed, else
\* the button is disabled until getCurrentPosition calls back
CenterMeClick(supported) ==
  /\ page = "form"
  /\ ~locating
  /\ clicks < MaxClicks
  /\ clicks' = clicks + 1
  /\ IF ~supported
       THEN /\ status' = [state |-> "warn",
                          text |-> "Geolocation not supported by this browser."]
            /\ statusTimer' = restart(statusTimer)
            /\ UNCHANGED locating
       ELSE /\ locating' = TRUE
            /\ UNCHANGED <<status, statusTimer>>
  /\ out' = Quiet("centerMe")
  /\ UNCHANGED <<page, supabase, now, center, form, pendingInserts,
                 isSubmitting, btnSubmit, baseStatus, submitNotice, noticeTimer,
                 labelTimers, invalid, sessionVars, localVars,
                 viewerVars, frameVars>>

\* getCurrentPosition calls back: with a position the map is centred on it,
\* else a warning is flashed
LocateSettle(c, found) ==
  /\ page = "form"
  /\ locating
  /\ locating' = FALSE
  /\ IF found
       THEN /\ center' = c
            /\ UNCHANGED <<status, statusTimer>>
       ELSE /\ status' = [state |-> "warn",
                          text |-> "Could not get your location (permission denied?)."]
            /\ statusTimer' = restart(statusTimer)
            /\ UNCHANGED center
  /\ out' = Quiet("located")
  /\ UNCHANGED <<page, supabase, now, form, pendingInserts, clicks,
                 isSubmitting, btnSubmit, baseStatus, submitNotice, noticeTimer,
                 labelTimers, invalid, sessionVars, localVars,
                 viewerVars, frameVars>>

\* boot of the form page
InitFormVars ==
  /\ isSubmitting = FALSE
  /\ btnSubmit = BootButton
  /\ status = BootStatus
  /\ baseStatus = BootStatus
  /\ statusTimer = NoTimer
  /\ submitNotice = [visible |-> FALSE, text |-> "", tone |-> ""]
  /\ noticeTimer = NoTimer
  /\ labelTimers = 0
  /\ invalid = [age_group |-> FALSE, gender |-> FALSE]
  /\ locating = FALSE

----------------------------------------------------------------------------
(* Local-storage app (src/app.js 394-725): the words of its GeoJSON. *)

k_type == <<"t", "y", "p", "e">>

s_FeatureCollection == <<"F", "e", "a", "t", "u", "r", "e", "C", "o", "l", "l", "e", "c", "t", "i", "o", "n">>

k_features == <<"f", "e", "a", "t", "u", "r", "e", "s">>

s_Feature == <<"F", "e", "a", "t", "u", "r", "e">>

k_geometry == <<"g", "e", "o", "m", "e", "t", "r", "y">>

s_Point == <<"P", "o", "i", "n", "t">>

k_coordinates == <<"c", "o", "o", "r", "d", "i", "n", "a", "t", "e", "s">>

k_properties == <<"p", "r", "o", "p", "e", "r", "t", "i", "e", "s">>

k_id == <<"i", "d">>

k_timestamp == <<"t", "i", "m", "e", "s", "t", "a", "m", "p">>

k_placeName == <<"p", "l", "a", "c", "e", "N", "a", "m", "e">>

k_like == <<"l", "i", "k", "e">>

k_safe == <<"s", "a", "f", "e">>

k_stress == <<"s", "t", "r", "e", "s", "s">>

k_comment == <<"c", "o", "m", "m", "e", "n", "t">>

\* the item under STORAGE_KEY: has is FALSE when getItem returns null
Item(raw) == [has |-> TRUE, raw |-> raw]

NoItem == [has |-> FALSE, raw |-> <<>>]

\* { type: "FeatureCollection", features: [...] }
FeatureCollectionOf(fs) ==
  JObj(<<Member(k_type, JStr(s_FeatureCollection)), Member(k_features, JArr(fs))>>)

\* Array.isArray(v)
isArray(v) == v.t = "arr"

\* loadFeatureCollection() on the stored item
loadFeatureCollection(item) ==
  IF ~item.has \/ item.raw = <<>> THEN FeatureCollectionOf(<<>>)
  ELSE LET parsed == parse(item.raw)
       IN  IF /\ parsed.ok
              /\ Prop(parsed.v, k_type) = JStr(s_FeatureCollection)
              /\ isArray(Prop(parsed.v, k_features))
             THEN parsed.v
             ELSE FeatureCollectionOf(<<>>)

\* the item saveFeatureCollection(fc) leaves under STORAGE_KEY
saveFeatureCollection_FeaturesOnly(fc) == Item(stringify(Prop(fc, k_features)))

saveFeatureCollection(fc) == Item(stringify(fc))

\* featureCollection.features
features(fc) == Prop(fc, k_features).a

\* fc with fs as its features
withFeatures(fc, fs) == JObj(putMember(fc.m, k_features, JArr(fs)))

\* Number(el.value) of a range input
Number(text) == IF text = <<>> THEN 0 ELSE digitsValue(text, 0)

\* uid(): the n-th identifier crypto.randomUUID() returns
uid(n) == <<"u">> \o digits(n)

\* the fields of #surveyForm as the page loads them
EmptyLocalForm ==
  [placeName |-> <<>>, like |-> <<"3">>, safe |-> <<"3">>, stress |-> <<"3">>,
   comment |-> <<>>]

\* what a user may have typed or dragged before a submit
LocalFormInputs ==
  { EmptyLocalForm,
    [placeName |-> <<" ", "P", "\"">>, like |-> <<"5">>, safe |-> <<"2">>,
     stress |-> <<"4">>, comment |-> <<",", "\n", "b", " ">>] }

\* the feature the submit handler builds
FeatureOf(id, timestamp, c, f) ==
  JObj(<<Member(k_type, JStr(s_Feature)),
         Member(k_geometry,
                JObj(<<Member(k_type, JStr(s_Point)),
                       Member(k_coordinates, JArr(<<JNum(c.lng), JNum(c.lat)>>))>>)),
         Member(k_properties,
                JObj(<<Member(k_id, JStr(id)),
                       Member(k_timestamp, JNum(timestamp)),
                       Member(k_placeName, JStr(trim(f.placeName))),
                       Member(k_like, JNum(Number(f.like))),
                       Member(k_safe, JNum(Number(f.safe))),
                       Member(k_stress, JNum(Number(f.stress))),
                       Member(k_comment, JStr(trim(f.comment)))>>))>>)

\* featureCollection.features.push(feature)
push(fc, feature) == withFeatures(fc, Append(features(fc), feature))

\* const [lng, lat] = v needs an iterable v: an array or a string
Iterable(v) == v.t \in {"arr", "str"}

\* the i-th value a destructuring takes from the iterable v
element(v, i) ==
  IF v.t = "arr" THEN (IF i <= Len(v.a) THEN v.a[i] ELSE JUndefined)
  ELSE IF i <= Len(v.s) THEN JStr(<<v.s[i]>>) ELSE JUndefined

\* f.geometry.coordinates
coordinates(f) == Prop(Prop(f, k_geometry), k_coordinates)

lngOf(f) == element(coordinates(f), 1)

\* position 0 read as the latitude
latOf_First(f) == element(coordinates(f), 1)

\* lat of `const [lng, lat] = f.geometry.coordinates`
latOf(f) == element(coordinates(f), 2)

\* f.properties
properties(f) == Prop(f, k_properties)

\* `const [lng, lat] = f.geometry.coordinates` throws a TypeError
CoordinatesThrow(f) ==
  Nullish(f) \/ Nullish(Prop(f, k_geometry)) \/ ~Iterable(coordinates(f))

\* `f.properties` or a property read of it throws a TypeError
PropertiesThrow(f) == Nullish(f) \/ Nullish(properties(f))

\* the least i with Throws(fs[i]); Len(fs) + 1 when no element throws
firstThrow(fs, Throws(_)) ==
  IF \E i \in 1..Len(fs) : Throws(fs[i])
    THEN CHOOSE i \in 1..Len(fs) :
           Throws(fs[i]) /\ \A j \in 1..(i - 1) : ~Throws(fs[j])
    ELSE Len(fs) + 1

\* one step of renderMarkers' forEach throws
MarkerThrows(f) == CoordinatesThrow(f) \/ PropertiesThrow(f)

\* renderMarkers(): the markers added until a step throws
renderMarkersFc(fs) ==
  LET k == firstThrow(fs, MarkerThrows)
  IN  [layer |-> [i \in 1..(k - 1) |-> [lat |-> latOf(fs[i]), lng |-> lngOf(fs[i])]],
       error |-> IF k <= Len(fs) THEN "TypeError" ELSE ""]

\* a comparator that always returns 0
sortsBefore_Never(b, a) == FALSE

\* b.properties.timestamp - a.properties.timestamp > 0: b sorts before a.
\* A difference that is NaN (a timestamp that is no number) counts as 0.
sortsBefore(b, a) ==
  LET tb == Prop(properties(b), k_timestamp)
      ta == Prop(properties(a), k_timestamp)
  IN  tb.t = "num" /\ ta.t = "num" /\ tb.n - ta.n > 0

\* sorted with f inserted behind every element it does not sort before
sortedInsert(sorted, f) ==
  LET k == firstThrow(sorted, LAMBDA e : sortsBefore(f, e))
  IN  SubSeq(sorted, 1, k - 1) \o <<f>> \o SubSeq(sorted, k, Len(sorted))

RECURSIVE sortNewestFirst(_)
\* [...features].sort(comparator): stable
sortNewestFirst(fs) ==
  IF fs = <<>> THEN <<>>
  ELSE sortedInsert(sortNewestFirst(SubSeq(fs, 1, Len(fs) - 1)), fs[Len(fs)])

\* the comparator runs when there are two features or more
SortThrows(fs) == Len(fs) >= 2 /\ \E i \in 1..Len(fs) : PropertiesThrow(fs[i])

\* n.toFixed(5) of a whole number
toFixed5(n) == numberToString(n) \o <<".", "0", "0", "0", "0", "0">>

\* building the card of f throws a TypeError
CardThrows(f) ==
  \/ PropertiesThrow(f)
  \/ CoordinatesThrow(f)
  \/ latOf(f).t # "num"
  \/ lngOf(f).t # "num"

\* the card of f: its data-id, the position Zoom goes to, the position shown,
\* and the timestamp of f, by which the card was placed
Card(f) ==
  [id |-> Prop(properties(f), k_id), lat |-> latOf(f).n, lng |-> lngOf(f).n,
   timestamp |-> Prop(properties(f), k_timestamp),
   meta |-> toFixed5(latOf(f).n) \o <<",", " ">> \o toFixed5(lngOf(f).n)]

\* `${n} point${n === 1 ? "" : "s"}`
countText(n) ==
  numberToString(n) \o <<" ", "p", "o", "i", "n", "t">>
    \o (IF n = 1 THEN <<>> ELSE <<"s">>)

\* renderList(): the count, and the cards appended until a step throws
renderListFc(fs) ==
  IF SortThrows(fs)
    THEN [count |-> countText(Len(fs)), cards |-> <<>>, error |-> "TypeError"]
    ELSE LET sorted == sortNewestFirst(fs)
             k == firstThrow(sorted, CardThrows)
         IN  [count |-> countText(Len(fs)),
              cards |-> [i \in 1..(k - 1) |-> Card(sorted[i])],
              error |-> IF k <= Len(fs) THEN "TypeError" ELSE ""]

RECURSIVE toText(_)
\* String(v ?? "")
toText(v) ==
  CASE Nullish(v) -> <<>>
    [] v.t = "bool" -> IF v.b THEN <<"t", "r", "u", "e">>
                       ELSE <<"f", "a", "l", "s", "e">>
    [] v.t = "num" -> numberToString(v.n)
    [] v.t = "str" -> v.s
    [] v.t = "arr" -> join([i \in 1..Len(v.a) |-> toText(v.a[i])], <<",">>)
    [] v.t = "obj" -> <<"[", "o", "b", "j", "e", "c", "t", " ",
                        "O", "b", "j", "e", "c", "t", "]">>

\* new Date(v).getTime(); -1 stands for NaN (Invalid Date)
dateValue(v) ==
  CASE v.t = "num" -> v.n
    [] v.t = "null" -> 0
    [] v.t = "bool" -> IF v.b THEN 1 ELSE 0
    [] v.t = "str" -> parseDate(v.s)
    [] OTHER -> -1

\* toCSV's headers (local-storage app)
headers ==
  << k_id, k_timestamp, k_placeName, <<"l", "a", "t">>, <<"l", "n", "g">>,
     k_like, k_safe, k_stress, k_comment >>

\* the function toCSV maps over fc.features throws a TypeError
LineThrows(f) == PropertiesThrow(f) \/ CoordinatesThrow(f)

\* new Date(p.timestamp).toISOString() throws a RangeError
DateThrows(f) == dateValue(Prop(properties(f), k_timestamp)) = -1

\* one data line of toCSV (local-storage app)
fcLine(f) ==
  LET p == properties(f)
  IN  join(<< esc(toText(Prop(p, k_id))),
              esc(toISOString(dateValue(Prop(p, k_timestamp)))),
              esc(toText(Prop(p, k_placeName))),
              esc(toText(latOf(f))),
              esc(toText(lngOf(f))),
              esc(toText(Prop(p, k_like))),
              esc(toText(Prop(p, k_safe))),
              esc(toText(Prop(p, k_stress))),
              esc(toText(Prop(p, k_comment))) >>, <<",">>)

\* toCSV(fc) of the local-storage app: the text, or the exception it throws
toCSVfc(fc) ==
  LET fs == features(fc)
      k == firstThrow(fs, LAMBDA f : LineThrows(f) \/ DateThrows(f))
  IN  IF k <= Len(fs)
        THEN [text |-> <<>>,
              error |-> IF LineThrows(fs[k]) THEN "TypeError" ELSE "RangeError"]
        ELSE [text |-> join(<<join(headers, <<",">>)>>
                              \o [i \in 1..Len(fs) |-> fcLine(fs[i])], <<"\n">>),
              error |-> ""]

RECURSIVE stringifyIndent(_, _)
RECURSIVE indentElements(_, _, _)
RECURSIVE indentMembers(_, _, _)

\* JSON.stringify(v, null, 2), ind being the indentation v stands at
stringifyIndent(v, ind) ==
  CASE v.t = "arr" /\ v.a # <<>> ->
         <<"[", "\n">> \o indentElements(v.a, 1, ind \o <<" ", " ">>)
           \o <<"\n">> \o ind \o <<"]">>
    [] v.t = "obj" /\ v.m # <<>> ->
         <<"{", "\n">> \o indentMembers(v.m, 1, ind \o <<" ", " ">>)
           \o <<"\n">> \o ind \o <<"}">>
    [] OTHER -> stringify(v)

\* the elements from the i-th on, one a line
indentElements(xs, i, ind) ==
  IF i > Len(xs) THEN <<>>
  ELSE (IF i > 1 THEN <<",", "\n">> ELSE <<>>)
         \o ind \o stringifyIndent(xs[i], ind)
         \o indentElements(xs, i + 1, ind)

\* the members from the i-th on, one a line
indentMembers(ms, i, ind) ==
  IF i > Len(ms) THEN <<>>
  ELSE (IF i > 1 THEN <<",", "\n">> ELSE <<>>)
         \o ind \o <<"\"">> \o quoteJSON(ms[i].k) \o <<"\"", ":", " ">>
         \o stringifyIndent(ms[i].x, ind)
         \o indentMembers(ms, i + 1, ind)

----------------------------------------------------------------------------
(* Local-storage app: what the browser may hold under STORAGE_KEY when the *)
(* page loads, and the handlers.                                           *)

NotJSON ==
  <<"n", "o", "t", " ", "j", "s", "o", "n">>

NullText ==
  <<"n", "u", "l", "l">>

NoFeaturesText ==
  <<"{", "\"", "t", "y", "p", "e", "\"", ":", "\"", "F", "e", "a", "t",
    "u", "r", "e", "C", "o", "l", "l", "e", "c", "t", "i", "o", "n", "\"",
    "}">>

NullFeatureText ==
  <<"{", "\"", "t", "y", "p", "e", "\"", ":", "\"", "F", "e", "a", "t",
    "u", "r", "e", "C", "o", "l", "l", "e", "c", "t", "i", "o", "n", "\"",
    ",", "\"", "f", "e", "a", "t", "u", "r", "e", "s", "\"", ":", "[", "n",
    "u", "l", "l", "]", "}">>

TextCoordinatesText ==
  <<"{", "\"", "t", "y", "p", "e", "\"", ":", "\"", "F", "e", "a", "t",
    "u", "r", "e", "C", "o", "l", "l", "e", "c", "t", "i", "o", "n", "\"",
    ",", "\"", "f", "e", "a", "t", "u", "r", "e", "s", "\"", ":", "[", "{",
    "\"", "t", "y", "p", "e", "\"", ":", "\"", "F", "e", "a", "t", "u",
    "r", "e", "\"", ",", "\"", "g", "e", "o", "m", "e", "t", "r", "y",
    "\"", ":", "{", "\"", "t", "y", "p", "e", "\"", ":", "\"", "P", "o",
    "i", "n", "t", "\"", ",", "\"", "c", "o", "o", "r", "d", "i", "n", "a",
    "t", "e", "s", "\"", ":", "[", "\"", "1", "5", "\"", ",", "\"", "4",
    "7", "\"", "]", "}", ",", "\"", "p", "r", "o", "p", "e", "r", "t", "i",
    "e", "s", "\"", ":", "{", "\"", "i", "d", "\"", ":", "\"", "x", "\"",
    ",", "\"", "t", "i", "m", "e", "s", "t", "a", "m", "p", "\"", ":", "1",
    "}", "}", "]", "}">>

\* a collection an earlier visit saved
SavedText ==
  stringify(FeatureCollectionOf(
    <<FeatureOf(<<"o", "l", "d">>, StartTime - 1, DEFAULT_CENTER,
                [EmptyLocalForm EXCEPT !.comment = <<"c", "\"", "\n", "d">>])>>))

StoredItems ==
  {NoItem} \cup
  {Item(raw) : raw \in {NotJSON, NullText, NoFeaturesText, NullFeatureText,
                        TextCoordinatesText, SavedText}}

\* the centre of L.latLngBounds of the features' positions, in whole units
boundsCenter(fs) ==
  LET lats == {latOf(fs[i]).n : i \in 1..Len(fs)}
      lngs == {lngOf(fs[i]).n : i \in 1..Len(fs)}
      min(S) == CHOOSE x \in S : \A y \in S : x <= y
      max(S) == CHOOSE x \in S : \A y \in S : x >= y
  IN  [lat |-> (min(lats) + max(lats)) \div 2,
       lng |-> (min(lngs) + max(lngs)) \div 2]

\* the page's script runs, top to bottom: at the first load, and again when
\* the user reloads the page.  An exception ends the script where it is thrown.
Startup ==
  /\ page = "local"
  /\ \/ featureCollection = JUndefined /\ clicks' = clicks
     \/ featureCollection # JUndefined /\ clicks < MaxClicks /\ clicks' = clicks + 1
  /\ featureCollection' = loadFeatureCollection(storage)
  /\ markersLayer' = renderMarkersFc(features(featureCollection')).layer
  /\ IF Len(markersLayer') < Len(features(featureCollection'))
       THEN /\ out' = [Quiet("startup") EXCEPT !.error = "TypeError"]
            /\ listEl' = <<>>
            /\ countEl' = <<>>
            /\ center' = DEFAULT_CENTER
       ELSE /\ countEl' = countText(Len(features(featureCollection')))
            /\ listEl' = renderListFc(features(featureCollection')).cards
            /\ IF Len(listEl') < Len(features(featureCollection'))
                 THEN /\ out' = [Quiet("startup") EXCEPT !.error = "TypeError"]
                      /\ center' = DEFAULT_CENTER
                 ELSE /\ out' = Quiet("startup")
                      /\ center' = IF features(featureCollection') = <<>>
                                     THEN DEFAULT_CENTER
                                     ELSE boundsCenter(features(featureCollection'))
  /\ form' = EmptyLocalForm
  /\ UNCHANGED <<page, supabase, now, pendingInserts, storage, uuids,
                 sessionVars, formVars,
                 viewerVars, frameVars>>

\* renderMarkers(); renderList(); -- a TypeError thrown by the first ends the
\* handler, and #count and #list stay as they are
Render(fs, event) ==
  /\ markersLayer' = renderMarkersFc(fs).layer
  /\ IF Len(markersLayer') < Len(fs)
       THEN /\ out' = [Quiet(event) EXCEPT !.error = "TypeError"]
            /\ UNCHANGED <<listEl, countEl>>
       ELSE /\ countEl' = countText(Len(fs))
            /\ listEl' = renderListFc(fs).cards
            /\ out' = [Quiet(event) EXCEPT
                         !.error = IF Len(listEl') < Len(fs) THEN "TypeError"
                                   ELSE ""]

\* form submit handler.  Its inputs: f, what the user has entered in
\* #surveyForm; ms, the milliseconds since the page's last step; written,
\* FALSE when localStorage.setItem throws (quota exceeded, storage disabled),
\* which ends the handler there.
LocalSubmit(f, ms, written) ==
  /\ page = "local"
  /\ featureCollection # JUndefined
  /\ clicks < MaxClicks
  /\ now + ms <= StartTime + MaxTicks
  /\ clicks' = clicks + 1
  /\ now' = now + ms
  /\ uuids' = uuids + 1
  /\ featureCollection' =
       push(featureCollection, FeatureOf(uid(uuids), now', center, f))
  /\ IF written
       THEN /\ storage' = saveFeatureCollection(featureCollection')
            /\ form' = [f EXCEPT !.placeName = <<>>, !.comment = <<>>]
            /\ Render(features(featureCollection'), "submitted")
       ELSE /\ form' = f
            /\ out' = [Quiet("submitted") EXCEPT !.error = "QuotaExceededError"]
            /\ UNCHANGED <<storage, markersLayer, listEl, countEl>>
  /\ UNCHANGED <<page, supabase, center, pendingInserts, sessionVars, formVars,
                 viewerVars, frameVars>>

\* features.filter((x) => x.properties.id !== id)
filter(fs, id) ==
  LET keep(i) == Prop(properties(fs[i]), k_id) # id
      RECURSIVE from(_)
      from(i) == IF i > Len(fs) THEN <<>>
                 ELSE (IF keep(i) THEN <<fs[i]>> ELSE <<>>) \o from(i + 1)
  IN  from(1)

\* a card's Delete click handler
LocalDelete(i, confirmed, written) ==
  /\ page = "local"
  /\ featureCollection # JUndefined
  /\ clicks < MaxClicks
  /\ clicks' = clicks + 1
  /\ IF ~confirmed
       THEN /\ out' = Quiet("deleteCancelled")
            /\ UNCHANGED <<featureCollection, storage, markersLayer, listEl, countEl>>
     ELSE IF \E j \in 1..Len(features(featureCollection)) :
               PropertiesThrow(features(featureCollection)[j])
       THEN /\ out' = [Quiet("deleted") EXCEPT !.error = "TypeError"]
            /\ UNCHANGED <<featureCollection, storage, markersLayer, listEl, countEl>>
     ELSE /\ featureCollection' =
               withFeatures(featureCollection,
                            filter(features(featureCollection), listEl[i].id))
          /\ IF written
               THEN /\ storage' = saveFeatureCollection(featureCollection')
                    /\ Render(features(featureCollection'), "deleted")
               ELSE /\ out' = [Quiet("deleted") EXCEPT
                                 !.error = "QuotaExceededError"]
                    /\ UNCHANGED <<storage, markersLayer, listEl, countEl>>
  /\ UNCHANGED <<page, supabase, now, center, form, pendingInserts, uuids,
                 sessionVars, formVars,
                 viewerVars, frameVars>>

\* a card's Zoom click handler: map.setView([lat, lng], 16)
ZoomTo(i) ==
  /\ page = "local"
  /\ center # [lat |-> listEl[i].lat, lng |-> listEl[i].lng]
  /\ center' = [lat |-> listEl[i].lat, lng |-> listEl[i].lng]
  /\ out' = Quiet("user")
  /\ UNCHANGED <<page, supabase, now, form, pendingInserts, clicks, scriptVars>>

\* btnClearAll click handler
ClearAll(confirmed, written) ==
  /\ page = "local"
  /\ featureCollection # JUndefined
  /\ clicks < MaxClicks
  /\ clicks' = clicks + 1
  /\ IF ~confirmed
       THEN /\ out' = Quiet("clearCancelled")
            /\ UNCHANGED <<featureCollection, storage, markersLayer, listEl, countEl>>
       ELSE /\ featureCollection' = FeatureCollectionOf(<<>>)
            /\ IF written
                 THEN /\ storage' = saveFeatureCollection(FeatureCollectionOf(<<>>))
                      /\ Render(<<>>, "cleared")
                 ELSE /\ out' = [Quiet("cleared") EXCEPT
                                   !.error = "QuotaExceededError"]
                      /\ UNCHANGED <<storage, markersLayer, listEl, countEl>>
  /\ UNCHANGED <<page, supabase, now, center, form, pendingInserts, uuids,
                 sessionVars, formVars,
                 viewerVars, frameVars>>

\* btnExportCSV click handler: downloads toCSV(featureCollection)
ExportCSV ==
  /\ page = "local"
  /\ featureCollection # JUndefined
  /\ clicks < MaxClicks
  /\ clicks' = clicks + 1
  /\ LET csv == toCSVfc(featureCollection)
     IN  out' = [Quiet("exportCSV") EXCEPT !.download = csv.text,
                                           !.error = csv.error]
  /\ UNCHANGED <<page, supabase, now, center, form, pendingInserts, scriptVars>>

\* btnExportGeoJSON click handler: downloads the collection as indented JSON
ExportGeoJSON ==
  /\ page = "local"
  /\ featureCollection # JUndefined
  /\ clicks < MaxClicks
  /\ clicks' = clicks + 1
  /\ out' = [Quiet("exportGeoJSON") EXCEPT
               !.download = stringifyIndent(featureCollection, <<>>)]
  /\ UNCHANGED <<page, supabase, now, center, form, pendingInserts, scriptVars>>

----------------------------------------------------------------------------
(* Viewer: numbers.  The viewer converts what a row holds with Number(), so *)
(* a number is held here in tenths (2.5 is 25), which is as fine as the     *)
(* rows of the model get; NaN stands for every value that is not finite.    *)

NaN == [nan |-> TRUE]

\* the number x / 10
Finite(x) == [x |-> x]

\* the fallback null of toNumber(v, null)
NoNumber == [null |-> TRUE]

\* Number.isFinite(n)
NumberIsFinite(n) == "x" \in DOMAIN n

\* Number(s) for a trimmed text: the empty text is 0, a decimal numeral with
\* at most one decimal is its value, any other text is NaN
StringToNumber(s) ==
  LET neg == s[1] = "-"
      from == IF neg THEN 2 ELSE 1
      to == digitsEnd(s, from)
      whole == digitsValue(SubSeq(s, from, to - 1), 0)
      sign == IF neg THEN 0 - 1 ELSE 1
  IN  IF s = <<>> THEN Finite(0)
      ELSE IF to = from THEN NaN
      ELSE IF to = Len(s) + 1 THEN Finite(sign * 10 * whole)
      ELSE IF to + 1 = Len(s) /\ s[to] = "." /\ IsDigit(s[to + 1])
        THEN Finite(sign * (10 * whole + digitsValue(<<s[to + 1]>>, 0)))
      ELSE NaN

\* Number(v)
NumberOf(v) ==
  CASE v.t = "null" -> Finite(0)
    [] v.t = "undefined" -> NaN
    [] v.t = "bool" -> IF v.b THEN Finite(10) ELSE Finite(0)
    [] v.t = "num" -> Finite(10 * v.n)
    [] v.t = "str" -> StringToNumber(trim(v.s))
    [] v.t = "arr" -> StringToNumber(trim(toText(v)))
    [] v.t = "obj" -> NaN

toNumber(v, fallback) ==
  LET n == NumberOf(v)
  IN  IF NumberIsFinite(n) THEN n ELSE fallback

Math_max(a, b) == IF a >= b THEN a ELSE b

Math_min(a, b) == IF a <= b THEN a ELSE b

clamp(n, min, max) == Math_min(max, Math_max(min, n))

\* x.toFixed(d) for d >= 1
toFixed(x, d) ==
  LET a == IF x < 0 THEN 0 - x ELSE x
  IN  (IF x < 0 THEN <<"-">> ELSE <<>>) \o digits(a \div 10) \o <<".">>
        \o digits(a % 10) \o [i \in 1..(d - 1) |-> "0"]

----------------------------------------------------------------------------
(* Viewer: the views. *)

HAPPY_COLORS == <<"#d1495b", "#f08a4b", "#f2c14e", "#7fd1ae", "#2a9d8f">>

k_lat == <<"l", "a", "t">>

k_lng == <<"l", "n", "g">>

k_happy == <<"h", "a", "p", "p", "y">>

k_greeen == <<"g", "r", "e", "e", "e", "n">>

\* the rating markerStyle uses for the value v, in tenths
ratingOf_Unclamped(v) == toNumber(v, Finite(30)).x

\* clamp(toNumber(v, 3), 1, 5), in tenths
ratingOf(v) == clamp(toNumber(v, Finite(30)).x, 10, 50)

\* HAPPY_COLORS[happy - 1] || HAPPY_COLORS[2]: index is happy - 1 in tenths,
\* and an index that is no element's gives undefined
colorAt(index) ==
  IF index % 10 = 0 /\ index \div 10 \in 0..(Len(HAPPY_COLORS) - 1)
    THEN HAPPY_COLORS[index \div 10 + 1]
    ELSE HAPPY_COLORS[3]

\* markerStyle(row): index is the palette index in tenths, radius is in
\* hundredths (5.5 + (green - 1) * 1.5)
markerStyle(row) ==
  LET happy == ratingOf(Prop(row, k_happy))
      green == ratingOf(Prop(row, k_greeen))
  IN  [index |-> happy - 10,
       color |-> colorAt(happy - 10),
       radius |-> 550 + (green - 10) * 15]

\* the row's lat and lng are finite after Number()
Plottable(row) ==
  /\ NumberIsFinite(NumberOf(Prop(row, k_lat)))
  /\ NumberIsFinite(NumberOf(Prop(row, k_lng)))

RECURSIVE renderMarkersRows(_)
\* renderMarkers(rows) of the viewer: a circle marker for each row whose lat
\* and lng are finite after Number(), in tenths of a degree
renderMarkersRows(data) ==
  IF data = <<>> THEN <<>>
  ELSE LET row == Head(data)
           rest == renderMarkersRows(Tail(data))
       IN  IF ~Plottable(row) THEN rest
           ELSE <<[id |-> Prop(row, k_id),
                   lat |-> NumberOf(Prop(row, k_lat)).x,
                   lng |-> NumberOf(Prop(row, k_lng)).x,
                   style |-> markerStyle(row)]>> \o rest

\* Number.isFinite(n) ? n.toFixed(5) : "--"
coordinateText(n) ==
  IF NumberIsFinite(n) THEN toFixed(n.x, 5) ELSE <<"-", "-">>

\* the card of a row: the position shown, and the position Zoom goes to
ViewerCard(row) ==
  LET lat == NumberOf(Prop(row, k_lat))
      lng == NumberOf(Prop(row, k_lng))
  IN  [id |-> Prop(row, k_id), lat |-> lat, lng |-> lng,
       meta |-> coordinateText(lat) \o <<",", " ">> \o coordinateText(lng)]

\* renderList(rows) of the viewer: the count and one card per row
renderListRows(data) ==
  [count |-> countText(Len(data)),
   cards |-> [i \in 1..Len(data) |-> ViewerCard(data[i])]]

RECURSIVE finiteValues(_, _)
\* rows.map((row) => toNumber(row[key], null)).filter(Number.isFinite)
finiteValues(data, key) ==
  IF data = <<>> THEN <<>>
  ELSE LET n == toNumber(Prop(Head(data), key), NoNumber)
       IN  (IF NumberIsFinite(n) THEN <<n.x>> ELSE <<>>)
             \o finiteValues(Tail(data), key)

RECURSIVE reduceSum(_)
\* values.reduce((acc, value) => acc + value, 0)
reduceSum(values) ==
  IF values = <<>> THEN 0 ELSE Head(values) + reduceSum(Tail(values))

\* (sum / n).toFixed(1) for a sum in tenths: the nearest tenth, the one
\* farther from zero of two
quotientToFixed1(sum, n) ==
  LET a == IF sum < 0 THEN 0 - sum ELSE sum
      r == (2 * a + n) \div (2 * n)
  IN  toFixed(IF sum < 0 THEN 0 - r ELSE r, 1)

\* avg(key) of updateStats
avg(data, key) ==
  IF finiteValues(data, key) = <<>> THEN <<"-", "-">>
  ELSE quotientToFixed1(reduceSum(finiteValues(data, key)),
                        Len(finiteValues(data, key))) \o <<" ", "/", " ", "5">>

\* updateStats(rows)
updateStats(data) ==
  [total |-> numberToString(Len(data)),
   avgHappy |-> avg(data, k_happy),
   avgGreen |-> avg(data, k_greeen)]

\* fitToRows(rows): the centre the map is fitted to, in tenths of a degree
fitToRows(data, c) ==
  LET latlngs == renderMarkersRows(data)
      lats == {latlngs[i].lat : i \in 1..Len(latlngs)}
      lngs == {latlngs[i].lng : i \in 1..Len(latlngs)}
      least(S) == CHOOSE x \in S : \A y \in S : x <= y
      most(S) == CHOOSE x \in S : \A y \in S : x >= y
  IN  IF latlngs = <<>> THEN c
      ELSE [lat |-> (least(lats) + most(lats)) \div 2,
            lng |-> (least(lngs) + most(lngs)) \div 2]

----------------------------------------------------------------------------
(* Viewer: loading. *)

Row(id, lat, lng, happy, greeen) ==
  JObj(<<Member(k_id, JNum(id)), Member(k_lat, lat), Member(k_lng, lng),
         Member(k_happy, happy), Member(k_greeen, greeen)>>)

\* a row as the form page and the session app insert it
RowFine == Row(1, JNum(47), JNum(15), JNum(4), JNum(2))

\* a row of numerals held as text, with a rating between two steps of the
\* scale and a rating above it
RowText ==
  Row(2, JStr(<<"-", "3", "3">>), JStr(<<" ", "1", "5", "1">>),
      JStr(<<"2", ".", "5">>), JStr(<<"9">>))

\* a row whose lat and ratings are no numerals, and without lng
RowBad ==
  JObj(<<Member(k_id, JNum(3)), Member(k_lat, JStr(<<"x">>)),
         Member(k_happy, JStr(<<"n", "/", "a">>)),
         Member(k_greeen, JStr(<<"-">>))>>)

\* a row with null in lat and happy, and a rating below the scale
RowNull == Row(4, JNull, JNum(15), JNull, JNum(0))

\* a row at RowFine's place without happy, and with a text for greeen
RowUnrated ==
  JObj(<<Member(k_id, JNum(5)), Member(k_lat, JNum(47)), Member(k_lng, JNum(15)),
         Member(k_greeen, JStr(<<"n", "/", "a">>))>>)

\* the values of `data` a select may resolve with
RemoteData ==
  { JNull, JArr(<<>>), JArr(<<RowFine>>), JArr(<<RowBad>>), JArr(<<RowNull>>),
    JArr(<<RowText, RowFine, RowBad, RowUnrated>>) }

Loading == [state |-> "loading", text |-> "Loading points..."]

\* boot() up to the await inside loadRows({ fit: true })
InitViewerVars ==
  /\ statusDot = IF supabase THEN Loading ELSE Unavailable
  /\ pendingLoads = IF supabase THEN {[n |-> 0, fit |-> TRUE]} ELSE {}
  /\ settledLoads = {}
  /\ viewerRows = <<>>
  /\ viewerMarkers = <<>>
  /\ viewerCards = <<>>
  /\ viewerCount = <<>>
  /\ statTotal = <<>>
  /\ statAvgHappy = <<>>
  /\ statAvgGreen = <<>>
  /\ lastSync = 0

\* btnRefresh click handler: loadRows() up to its await.  The button is
\* disabled when there is no client.
RefreshClick ==
  /\ page = "viewer"
  /\ supabase
  /\ clicks < MaxClicks
  /\ clicks' = clicks + 1
  /\ statusDot' = Loading
  /\ pendingLoads' = pendingLoads \cup {[n |-> clicks', fit |-> FALSE]}
  /\ out' = Quiet("refresh")
  /\ UNCHANGED <<page, supabase, now, center, form, pendingInserts,
                 viewerRows, viewerMarkers, viewerCards, viewerCount, statTotal,
                 statAvgHappy, statAvgGreen, lastSync, settledLoads,
                 sessionVars, formVars, localVars, frameVars>>

\* const { data, error } = await ...; const rows = data || []: what a select
\* that settled with the outcome o and with data gives the call
Returned(o, data) ==
  IF o = "ok"
    THEN [failed |-> FALSE, rows |-> IF data = JNull THEN <<>> ELSE data.a]
    ELSE [failed |-> TRUE, rows |-> <<>>]

\* loadRows after its await: the select of the call p settles with the
\* outcome o and, when there is no error, with data.  A rejected select
\* rejects the call: boot() reports it with an alert, the click handler
\* leaves the rejection unhandled.
LoadSettle(p, o, data) ==
  /\ page = "viewer"
  /\ p \in pendingLoads
  /\ pendingLoads' = pendingLoads \ {p}
  /\ settledLoads' = settledLoads \cup {[n |-> p.n, returned |-> Returned(o, data)]}
  /\ CASE o = "throw" ->
            /\ out' = [Quiet("loaded") EXCEPT
                         !.error = "rejected",
                         !.alert = IF p.fit THEN "Viewer failed to start" ELSE ""]
            /\ UNCHANGED <<center, statusDot, viewerRows, viewerMarkers, viewerCards,
                           viewerCount, statTotal, statAvgHappy, statAvgGreen,
                           lastSync>>
       [] o = "error" ->
            /\ statusDot' = [state |-> "error", text |-> "Could not load data"]
            /\ out' = Quiet("loaded")
            /\ UNCHANGED <<center, viewerRows, viewerMarkers, viewerCards, viewerCount,
                           statTotal, statAvgHappy, statAvgGreen, lastSync>>
       [] o = "ok" ->
            /\ viewerRows' = Returned(o, data).rows
            /\ viewerMarkers' = renderMarkersRows(viewerRows')
            /\ viewerCards' = renderListRows(viewerRows').cards
            /\ viewerCount' = renderListRows(viewerRows').count
            /\ statTotal' = updateStats(viewerRows').total
            /\ statAvgHappy' = updateStats(viewerRows').avgHappy
            /\ statAvgGreen' = updateStats(viewerRows').avgGreen
            /\ lastSync' = now
            /\ statusDot' = [state |-> "ok", text |-> "Live data connected"]
            /\ center' = IF p.fit THEN fitToRows(viewerRows', center) ELSE center
            /\ out' = Quiet("loaded")
  /\ UNCHANGED <<page, supabase, now, form, pendingInserts, clicks,
                 sessionVars, formVars, localVars, frameVars>>

\* the Zoom button of the i-th card
ViewerZoom(i) ==
  /\ page = "viewer"
  /\ NumberIsFinite(viewerCards[i].lat)
  /\ NumberIsFinite(viewerCards[i].lng)
  /\ center # [lat |-> viewerCards[i].lat.x, lng |-> viewerCards[i].lng.x]
  /\ center' = [lat |-> viewerCards[i].lat.x, lng |-> viewerCards[i].lng.x]
  /\ out' = Quiet("user")
  /\ UNCHANGED <<page, supabase, now, form, pendingInserts, clicks, scriptVars>>

----------------------------------------------------------------------------
(* Session app: the specification. *)

\* the state every page starts from
InitShared ==
  /\ supabase \in BOOLEAN
  /\ now = StartTime
  /\ center = DEFAULT_CENTER
  /\ form = EmptyForm
  /\ pendingInserts = {}
  /\ clicks = 0
  /\ out = Quiet("boot")

\* boot of the session app: rows = [], then renderMarkers() and renderList()
InitSessionVars ==
  /\ rows = <<>>
  /\ markers = renderMarkersOf(<<>>)
  /\ cards = renderListOf(<<>>).cards
  /\ count = renderListOf(<<>>).count
  /\ pendingDeletes = {}
  /\ nextId = 0

\* the form page's variables before its script runs
IdleFormVars ==
  /\ isSubmitting = FALSE
  /\ btnSubmit = [disabled |-> FALSE, text |-> "Submit point"]
  /\ status = [state |-> "warn", text |-> "Connecting..."]
  /\ baseStatus = [state |-> "warn", text |-> "Connecting..."]
  /\ statusTimer = NoTimer
  /\ submitNotice = [visible |-> FALSE, text |-> "", tone |-> ""]
  /\ noticeTimer = NoTimer
  /\ labelTimers = 0
  /\ invalid = [age_group |-> FALSE, gender |-> FALSE]
  /\ locating = FALSE

\* the local-storage app's variables on the other pages
IdleLocalVars ==
  /\ storage = NoItem
  /\ featureCollection = JUndefined
  /\ markersLayer = <<>>
  /\ listEl = <<>>
  /\ countEl = <<>>
  /\ uuids = 0

\* the viewer's variables on the other pages
IdleViewerVars ==
  /\ statusDot = [state |-> "", text |-> ""]
  /\ pendingLoads = {}
  /\ settledLoads = {}
  /\ viewerRows = <<>>
  /\ viewerMarkers = <<>>
  /\ viewerCards = <<>>
  /\ viewerCount = <<>>
  /\ statTotal = <<>>
  /\ statAvgHappy = <<>>
  /\ statAvgGreen = <<>>
  /\ lastSync = 0

\* the crosshair after the script's first syncCenterSelection()
InitFrameVars ==
  /\ rafPending = FALSE
  /\ rafCallbacks = 0
  /\ syncs = 0
  /\ centerEl = center

InitSession ==
  /\ page = "session"
  /\ InitShared
  /\ InitSessionVars
  /\ IdleFormVars
  /\ IdleLocalVars
  /\ IdleViewerVars
  /\ InitFrameVars

NextSession ==
  \/ \E f \in Fillings : FillForm(f)
  \/ \E c \in Centers : MoveMap(c)
  \/ Tick
  \/ SubmitClick
  \/ \E p \in pendingInserts, o \in Outcomes, w \in BOOLEAN : InsertSettle(p, o, w)
  \/ \E i \in 1..Len(cards), b \in BOOLEAN : DeleteClick(i, b)
  \/ \E d \in pendingDeletes, o \in Outcomes : DeleteSettle(d, o)
  \/ FinishSurvey

SpecSession == InitSession /\ [][NextSession]_vars

\* the values the submit handler reads from a form filled as f, with the map
\* at its first centre
valuesRead(f) ==
  [placeName |-> trim(f.placeName),
   lat |-> DEFAULT_CENTER.lat,
   lng |-> DEFAULT_CENTER.lng,
   happy |-> f.happy,
   greeen |-> f.greeen,
   comment |-> trim(f.comment),
   age_group |-> f.age_group,
   gender |-> f.gender]

\* the session app once two submits have been committed within the same
\* millisecond: the backend assigned the identifiers 0 and 1 and returned the
\* inserted row or null; clicks counts the clicks from here on
InitCommitted ==
  /\ page = "session"
  /\ supabase = TRUE
  /\ now = StartTime
  /\ center = DEFAULT_CENTER
  /\ pendingInserts = {}
  /\ clicks = 0
  /\ out = Quiet("submitSaved")
  /\ \E f1 \in FormInputs, f2 \in FormInputs, w1 \in BOOLEAN, w2 \in BOOLEAN :
       /\ rows = unshift(unshift(<<>>,
                   newRow(valuesRead(f1), IF w1 THEN <<[id |-> 0]>> ELSE <<>>)),
                   newRow(valuesRead(f2), IF w2 THEN <<[id |-> 1]>> ELSE <<>>))
       /\ form = [f2 EXCEPT !.placeName = <<>>, !.comment = <<>>]
  /\ markers = renderMarkersOf(rows)
  /\ cards = renderListOf(rows).cards
  /\ count = renderListOf(rows).count
  /\ pendingDeletes = {}
  /\ nextId = 2
  /\ IdleFormVars
  /\ IdleLocalVars
  /\ IdleViewerVars
  /\ InitFrameVars

\* submits and deletes on the store
NextCommitted ==
  \/ Tick
  \/ SubmitClick
  \/ \E p \in pendingInserts, o \in Outcomes, w \in BOOLEAN : InsertSettle(p, o, w)
  \/ \E i \in 1..Len(cards), b \in BOOLEAN : DeleteClick(i, b)
  \/ \E d \in pendingDeletes, o \in Outcomes : DeleteSettle(d, o)

SpecCommitted == InitCommitted /\ [][NextCommitted]_vars

----------------------------------------------------------------------------
(* Form page: the specification. *)

InitForm ==
  /\ page = "form"
  /\ InitShared
  /\ InitSessionVars
  /\ InitFormVars
  /\ IdleLocalVars
  /\ IdleViewerVars
  /\ InitFrameVars

NextForm ==
  \/ \E f \in Fillings : FillForm(f)
  \/ \E c \in Centers : MoveMap(c)
  \/ Tick
  \/ HandleSubmit
  \/ \E p \in pendingInserts, o \in Outcomes : FormInsertSettle(p, o)
  \/ \E handle \in statusTimer.pending : StatusTimeout(handle)
  \/ \E handle \in noticeTimer.pending : NoticeTimeout(handle)
  \/ LabelTimeout
  \/ \E b \in BOOLEAN : CenterMeClick(b)
  \/ \E c \in Centers, b \in BOOLEAN : LocateSettle(c, b)

SpecForm == InitForm /\ [][NextForm]_vars

\* the form page when every insert settles: the promise the handler awaits
\* is resolved or rejected at some time
SpecFormSettling ==
  /\ SpecForm
  /\ WF_vars(\E p \in pendingInserts, o \in Outcomes : FormInsertSettle(p, o))

\* the form page when every timeout set by flashStatus and showSubmitNotice
\* fires unless it is cleared: the browser runs a pending timeout at some time
SpecFormTimers ==
  /\ SpecForm
  /\ WF_vars(\E handle \in statusTimer.pending : StatusTimeout(handle))
  /\ WF_vars(\E handle \in noticeTimer.pending : NoticeTimeout(handle))

----------------------------------------------------------------------------
(* Local-storage app: the specification.  It starts before the page's      *)
(* script has run, with any of the stored items.                           *)

InitLocal ==
  /\ page = "local"
  /\ supabase = FALSE
  /\ now = StartTime
  /\ center = DEFAULT_CENTER
  /\ form = EmptyLocalForm
  /\ pendingInserts = {}
  /\ clicks = 0
  /\ out = Quiet("open")
  /\ InitSessionVars
  /\ IdleFormVars
  /\ storage \in StoredItems
  /\ featureCollection = JUndefined
  /\ markersLayer = <<>>
  /\ listEl = <<>>
  /\ countEl = <<>>
  /\ uuids = 0
  /\ IdleViewerVars
  /\ InitFrameVars

NextLocal ==
  \/ Startup
  \/ \E c \in Centers : MoveMap(c)
  \/ \E f \in LocalFormInputs, ms \in 0..1, w \in BOOLEAN : LocalSubmit(f, ms, w)
  \/ \E i \in 1..Len(listEl), b, w \in BOOLEAN : LocalDelete(i, b, w)
  \/ \E i \in 1..Len(listEl) : ZoomTo(i)
  \/ \E b, w \in BOOLEAN : ClearAll(b, w)
  \/ ExportCSV
  \/ ExportGeoJSON

SpecLocal == InitLocal /\ [][NextLocal]_vars

----------------------------------------------------------------------------
(* Viewer: the specification. *)

InitViewer ==
  /\ page = "viewer"
  /\ supabase \in BOOLEAN
  /\ now = StartTime
  /\ center = [lat |-> 10 * DEFAULT_CENTER.lat, lng |-> 10 * DEFAULT_CENTER.lng]
  /\ form = EmptyForm
  /\ pendingInserts = {}
  /\ clicks = 0
  /\ out = Quiet("boot")
  /\ InitSessionVars
  /\ IdleFormVars
  /\ IdleLocalVars
  /\ InitViewerVars
  /\ InitFrameVars

NextViewer ==
  \/ RefreshClick
  \/ \E p \in pendingLoads, o \in Outcomes, data \in RemoteData :
       LoadSettle(p, o, data)
  \/ \E i \in 1..Len(viewerCards) : ViewerZoom(i)

SpecViewer == InitViewer /\ [][NextViewer]_vars

----------------------------------------------------------------------------
(* Crosshair of the session app and of the form page.  The specifications   *)
(* of the pages take a move of the map as one step; this one follows the    *)
(* map's notifications and the animation frames.                            *)

\* syncCenterSelection(): the centre is shown in #centerLat and #centerLng
\* and the draft marker is put there
syncCenterSelection ==
  /\ centerEl' = center'
  /\ syncs' = syncs + 1

\* map.on("move", scheduleSync): the map has moved to c
Move(c) ==
  /\ c # center
  /\ center' = c
  /\ IF rafPending
       THEN UNCHANGED <<rafPending, rafCallbacks>>
       ELSE /\ rafPending' = TRUE
            /\ rafCallbacks' = rafCallbacks + 1
  /\ out' = Quiet("move")
  /\ UNCHANGED <<page, supabase, now, form, pendingInserts, clicks, syncs,
                 centerEl, sessionVars, formVars, localVars, viewerVars>>

\* map.on("moveend", syncCenterSelection)
MoveEnd ==
  /\ syncs < MaxSyncs
  /\ UNCHANGED center
  /\ syncCenterSelection
  /\ out' = Quiet("moveend")
  /\ UNCHANGED <<page, supabase, now, form, pendingInserts, clicks,
                 rafPending, rafCallbacks, sessionVars, formVars, localVars,
                 viewerVars>>

\* map.on("zoomend", syncCenterSelection)
ZoomEnd ==
  /\ syncs < MaxSyncs
  /\ UNCHANGED center
  /\ syncCenterSelection
  /\ out' = Quiet("zoomend")
  /\ UNCHANGED <<page, supabase, now, form, pendingInserts, clicks,
                 rafPending, rafCallbacks, sessionVars, formVars, localVars,
                 viewerVars>>

\* a frame begins: the browser runs the callbacks requestAnimationFrame
\* holds, each of which clears rafPending and calls syncCenterSelection
AnimationFrame ==
  /\ UNCHANGED center
  /\ rafCallbacks' = 0
  /\ rafPending' = (rafPending /\ rafCallbacks = 0)
  /\ syncs' = rafCallbacks
  /\ centerEl' = IF rafCallbacks > 0 THEN center ELSE centerEl
  /\ out' = Quiet("frame")
  /\ UNCHANGED <<page, supabase, now, form, pendingInserts, clicks,
                 sessionVars, formVars, localVars, viewerVars>>

InitCrosshair == InitSession \/ InitForm

NextCrosshair ==
  \/ \E c \in Centers : Move(c)
  \/ MoveEnd
  \/ ZoomEnd
  \/ AnimationFrame

SpecCrosshair == InitCrosshair /\ [][NextCrosshair]_vars

----------------------------------------------------------------------------
(* Any of the pages. *)

Init == InitSession \/ InitForm \/ InitLocal \/ InitViewer

\* the handlers of the page that is open
Next ==
  \/ page = "session" /\ NextSession
  \/ page = "form" /\ NextForm
  \/ page = "local" /\ NextLocal
  \/ page = "viewer" /\ NextViewer

Spec == Init /\ [][Next]_vars


----------------------------------------------------------------------------
(* Properties. *)

\* the suspended handler a step resumes
Resumed(before, after) == CHOOSE p \in before \ after : TRUE

\* C1: when the remote delete of a row fails (an error is returned or the call
\* throws), the step that handles the failure leaves rows as they were, in
\* content and order, and the list and the markers too: a row of the store is
\* still on its card and on the map.
C1_FailedDeleteKeepsStore ==
  [][out'.event = "deleteFailed" =>
       /\ rows' = rows
       /\ cards' = cards
       /\ markers' = markers
       /\ LET d == Resumed(pendingDeletes, pendingDeletes')
          IN  (\E i \in 1..Len(rows) : rows[i] = d.row) =>
                /\ \E i \in 1..Len(cards') : cards'[i] = d.row
                /\ \E i \in 1..Len(markers') : markers'[i].id = d.row.id]_vars

\* C1's case: a delete has failed while the store holds the row
C1_Witness ==
  /\ out.event = "deleteFailed"
  /\ rows # <<>>
  /\ cards = rows
  /\ Len(markers) = Len(rows)

\* C2: on the session app and on the form page, a submit triggered while an
\* earlier one still awaits its insert issues no insert: at most one insert
\* is in flight.
C2_OneInsertInFlight == Cardinality(pendingInserts) <= 1

\* C3: when the insert of a submission fails, the store holds the rows it
\* held, no marker and no card is added, the place name and the comment are
\* not cleared, an error notice is shown (the session app's alert, the form
\* page's notice and status) and no exception leaves the handler.
C3_FailedInsertKeepsAll ==
  [][out'.event = "submitFailed" =>
       /\ rows' = rows
       /\ markers' = markers
       /\ cards' = cards
       /\ count' = count
       /\ form'.placeName = form.placeName
       /\ form'.comment = form.comment
       /\ out'.error = ""
       /\ page = "session" => out'.alert = "Error saving submission"
       /\ page = "form" =>
            /\ submitNotice'.visible
            /\ submitNotice'.tone = "warn"
            /\ status'.state = "error"]_vars

\* C3's case: an insert has failed on the session app while the store holds a
\* row and the place name is filled in
C3_Witness ==
  /\ out.event = "submitFailed"
  /\ page = "session"
  /\ rows # <<>>
  /\ form.placeName # <<>>

\* C4: no two rows of the store have the same id.
C4_UniqueIds ==
  \A i, j \in 1..Len(rows) : i # j => rows[i].id # rows[j].id

\* the row a successful submit of the handler p has to add, given the place
\* name and comment it has to carry
ExpectedRow(p, placeName, comment, row) ==
  /\ row.placeName = placeName
  /\ row.comment = comment
  /\ row.happy = p.read.happy
  /\ row.greeen = p.read.greeen
  /\ row.age_group = p.read.age_group
  /\ row.gender = p.read.gender
  /\ row.lat = p.values.lat
  /\ row.lng = p.values.lng

\* a successful submit adds one row, first, leaves the others, raises the
\* count by one and clears the place name and the comment
AddsOneRowFirst ==
  /\ Len(rows') = Len(rows) + 1
  /\ Tail(rows') = rows
  /\ count' = count + 1
  /\ cards' = rows'
  /\ form'.placeName = <<>>
  /\ form'.comment = <<>>

\* C5 as claimed: the new row's place name and comment equal the form's values.
C5_RowEqualsFormValues ==
  [][out'.event = "submitSaved" =>
       LET p == Resumed(pendingInserts, pendingInserts')
       IN  /\ AddsOneRowFirst
           /\ ExpectedRow(p, p.read.placeName, p.read.comment, rows'[1])]_vars

\* C5, amended: a successful submit of the session app adds exactly one row,
\* first; its happy, greeen, age_group and gender equal the form's values and
\* its placeName and comment equal the form's values with the white space at
\* both ends removed, all as read when the submit was triggered, and its
\* lat/lng equal the map centre read then; the rows already in the store are
\* unchanged, the count rises by 1 and the place name and comment are cleared.
C5_RowEqualsTrimmedFormValues ==
  [][out'.event = "submitSaved" =>
       LET p == Resumed(pendingInserts, pendingInserts')
       IN  /\ AddsOneRowFirst
           /\ ExpectedRow(p, trim(p.read.placeName), trim(p.read.comment),
                          rows'[1])]_vars

\* C5's case: a submit has been saved ahead of an earlier row, after the form
\* and the map changed while it was in flight
C5_Witness ==
  /\ out.event = "submitSaved"
  /\ Len(rows) = 2
  /\ rows[1].placeName = <<"P", "\"">>
  /\ rows[1].lat # center.lat
  /\ form.happy # rows[1].happy

\* C6: when handleSubmit reaches its validation (a client is configured and
\* no submission is in flight) and the age group or the gender is empty, no
\* insert is issued and nothing is stored; isSubmitting is false, the submit
\* button is enabled and the validation warning is shown.
C6_InvalidSubmitBackToIdle ==
  [][( /\ page = "form"
       /\ out'.event \in {"ignored", "unavailable", "invalid", "insert"}
       /\ clicks' = clicks + 1
       /\ supabase
       /\ ~isSubmitting
       /\ (form.age_group = <<>> \/ form.gender = <<>>) ) =>
       /\ pendingInserts' = {}
       /\ rows' = <<>>
       /\ ~isSubmitting'
       /\ ~btnSubmit'.disabled
       /\ status' = ValidationWarning
       /\ statusTimer'.pending # {}
       /\ form' = form]_vars

\* C6's case: a submit with the age group chosen and the gender open has been
\* turned down
C6_Witness ==
  /\ page = "form"
  /\ out.event = "invalid"
  /\ form.age_group # <<>>
  /\ form.gender = <<>>
  /\ ~btnSubmit.disabled

\* C7: without a backend client no insert is ever issued and no row is ever
\* stored; on the form page the submit button stays disabled, the base status
\* is error / "Data service unavailable" and the indicator shows it whenever
\* no flash is pending.
C7_NoBackendNoSubmit ==
  ~supabase =>
    /\ pendingInserts = {}
    /\ rows = <<>>
    /\ nextId = 0
    /\ page = "form" =>
         /\ btnSubmit.disabled
         /\ ~isSubmitting
         /\ baseStatus = Unavailable
         /\ (statusTimer.pending = {} => status = Unavailable)

\* C7's case: without a client, a submit on the form page was turned down and
\* the flash of a failed geolocation has expired since
C7_Witness ==
  /\ ~supabase
  /\ page = "form"
  /\ submitNotice.text # ""
  /\ statusTimer.pending = {}
  /\ out.event = "timer"

\* a GeoJSON Point feature as the submit handler builds it: a position of two
\* numbers, and properties with a number as timestamp
WellFormedFeature(f) ==
  /\ f.t = "obj"
  /\ Prop(f, k_type) = JStr(s_Feature)
  /\ Prop(Prop(f, k_geometry), k_type) = JStr(s_Point)
  /\ coordinates(f).t = "arr"
  /\ Len(coordinates(f).a) = 2
  /\ lngOf(f).t = "num"
  /\ latOf(f).t = "num"
  /\ properties(f).t = "obj"
  /\ Prop(properties(f), k_timestamp).t = "num"

\* the stored item is the text of a feature collection of well-formed features
WellFormedItem(item) ==
  /\ item.has
  /\ parse(item.raw).ok
  /\ Prop(parse(item.raw).v, k_type) = JStr(s_FeatureCollection)
  /\ Prop(parse(item.raw).v, k_features).t = "arr"
  /\ \A i \in 1..Len(Prop(parse(item.raw).v, k_features).a) :
       WellFormedFeature(Prop(parse(item.raw).v, k_features).a[i])

\* C8: whatever is stored under the storage key, the startup of the
\* local-storage app (loadFeatureCollection, then the first renderMarkers and
\* renderList and the fit to the bounds) throws no exception, and a stored
\* item that is not a well-formed feature collection leaves the store empty.
C8_StartupNeverThrows ==
  out.event = "startup" =>
    /\ out.error = ""
    /\ ~WellFormedItem(storage) => features(featureCollection) = <<>>

\* C9: a collection of features the submit handler built, once saved by
\* saveFeatureCollection, is loaded by loadFeatureCollection with the same
\* features in the same order, each with its id, timestamp, coordinates and
\* field values; and the text the GeoJSON export downloads parses to the
\* collection.
C9_SaveLoadRoundTrip ==
  /\ (out.event \in {"submitted", "deleted", "cleared"} /\ out.error = "") =>
       features(loadFeatureCollection(storage)) = features(featureCollection)
  /\ out.event = "exportGeoJSON" =>
       parse(out.download) = Parsed(featureCollection, Len(out.download) + 1)

\* C9's case: two features have been saved, one of them with a double quote in
\* its place name and a line break in its comment, at a position with a
\* negative latitude
C9_Witness ==
  /\ out.event = "submitted"
  /\ out.error = ""
  /\ Len(features(featureCollection)) = 2
  /\ \E i \in 1..2 :
       LET f == features(featureCollection)[i]
       IN  /\ \E j \in 1..Len(Prop(properties(f), k_placeName).s) :
                Prop(properties(f), k_placeName).s[j] = "\""
           /\ \E j \in 1..Len(Prop(properties(f), k_comment).s) :
                Prop(properties(f), k_comment).s[j] = "\n"
           /\ latOf(f).n < 0

\* the line feeds of a text
lineFeeds(text) == Cardinality({i \in 1..Len(text) : text[i] = "\n"})

\* the lines of a text, counted: one more than its line feeds
lineCount(text) == 1 + lineFeeds(text)

\* the line feeds of a CSV text that end a record: those with an even number
\* of double quotes before them (the others stand inside a quoted field)
recordEnds(text) ==
  {i \in 1..Len(text) :
     /\ text[i] = "\n"
     /\ Cardinality({j \in 1..(i - 1) : text[j] = "\""}) % 2 = 0}

\* the records of a CSV text
csvRecords(text) ==
  LET ends == recordEnds(text)
      n == Cardinality(ends)
      end(k) == IF k = 0 THEN 0
                ELSE IF k = n + 1 THEN Len(text) + 1
                ELSE CHOOSE i \in ends : Cardinality({j \in ends : j < i}) = k - 1
  IN  [k \in 1..(n + 1) |-> SubSeq(text, end(k - 1) + 1, end(k) - 1)]

RECURSIVE lineFeedsIn(_)
\* the line feeds of a sequence of texts
lineFeedsIn(texts) ==
  IF texts = <<>> THEN 0 ELSE lineFeeds(Head(texts)) + lineFeedsIn(Tail(texts))

\* text is the header and after it one record for each of ids, in their
\* order, each beginning with its quoted id; every line feed of fields adds
\* one line to the header's and the records' own
HeaderAndRecords(text, header, ids, fields) ==
  LET records == csvRecords(text)
  IN  /\ Len(records) = Len(ids) + 1
      /\ records[1] = header
      /\ \A i \in 1..Len(ids) :
           /\ Len(records[i + 1]) >= Len(ids[i]) + 3
           /\ SubSeq(records[i + 1], 1, Len(ids[i]) + 3)
                = <<"\"">> \o ids[i] \o <<"\"", ",">>
      /\ lineCount(text) = Len(ids) + 1 + lineFeedsIn(fields)

\* the ids of the session app's rows, as text
rowIds == [i \in 1..Len(rows) |-> numberToString(rows[i].id)]

\* the place names and the comments of the session app's rows
rowTexts ==
  [i \in 1..Len(rows) |-> rows[i].placeName]
    \o [i \in 1..Len(rows) |-> rows[i].comment]

\* the local-storage app's header line
headerLine == join(headers, <<",">>)

\* the ids of the local-storage app's features, as text
featureIds ==
  [i \in 1..Len(features(featureCollection)) |->
     toText(Prop(properties(features(featureCollection)[i]), k_id))]

\* the place names and the comments of the local-storage app's features
featureTexts ==
  [i \in 1..Len(features(featureCollection)) |->
     toText(Prop(properties(features(featureCollection)[i]), k_placeName))]
    \o [i \in 1..Len(features(featureCollection)) |->
          toText(Prop(properties(features(featureCollection)[i]), k_comment))]

\* every feature of the store is one the submit handler could have built
StoreWellFormed ==
  \A i \in 1..Len(features(featureCollection)) :
    WellFormedFeature(features(featureCollection)[i])

fieldEnds(record) ==
  {i \in 1..Len(record) :
     /\ record[i] = ","
     /\ Cardinality({j \in 1..(i - 1) : record[j] = "\""}) % 2 = 0}

\* the parts of a text that the positions ends separate
pieces(text, ends) ==
  LET n == Cardinality(ends)
      end(k) == IF k = 0 THEN 0
                ELSE IF k = n + 1 THEN Len(text) + 1
                ELSE CHOOSE i \in ends : Cardinality({j \in ends : j < i}) = k - 1
  IN  [k \in 1..(n + 1) |-> SubSeq(text, end(k - 1) + 1, end(k) - 1)]

\* the fields of a CSV record, as written
csvFields(record) == pieces(record, fieldEnds(record))

RECURSIVE paired(_, _, _)
\* from position i to position last of a field, double quotes come in pairs
paired(field, i, last) ==
  IF i > last THEN TRUE
  ELSE IF field[i] = "\""
    THEN i + 1 <= last /\ field[i + 1] = "\"" /\ paired(field, i + 2, last)
  ELSE paired(field, i + 1, last)

RECURSIVE undoubled(_, _, _)
\* the text from position i to position last of a field, a pair of double
\* quotes read as one
undoubled(field, i, last) ==
  IF i > last THEN <<>>
  ELSE IF field[i] = "\"" THEN <<"\"">> \o undoubled(field, i + 2, last)
  ELSE <<field[i]>> \o undoubled(field, i + 1, last)

\* the field is a text between double quotes with every double quote of the
\* text doubled
Quoted(field) ==
  /\ Len(field) >= 2
  /\ field[1] = "\""
  /\ field[Len(field)] = "\""
  /\ paired(field, 2, Len(field) - 1)

\* the record's fields are all quoted, and read by the quoting rule they are
\* the texts
ReadsAs(record, texts) ==
  \A ends \in {fieldEnds(record)} :
    /\ Cardinality(ends) + 1 = Len(texts)
    /\ \A k \in 1..Len(texts) :
         \A field \in {pieces(record, ends)[k]} :
           /\ Quoted(field)
           /\ undoubled(field, 2, Len(field) - 1) = texts[k]

\* the texts of the values toCSV writes for a row of the session app
rowValues(r) ==
  << numberToString(r.id), r.timestamp, r.placeName, numberToString(r.lat),
     numberToString(r.lng), numberToString(r.happy), numberToString(r.greeen),
     r.comment, r.age_group, r.gender >>

\* the texts of the values toCSV writes for a feature of the local-storage
\* app: a value that is null or undefined gives the empty text
featureValues(f) ==
  << toText(Prop(properties(f), k_id)),
     toISOString(dateValue(Prop(properties(f), k_timestamp))),
     toText(Prop(properties(f), k_placeName)),
     toText(latOf(f)),
     toText(lngOf(f)),
     toText(Prop(properties(f), k_like)),
     toText(Prop(properties(f), k_safe)),
     toText(Prop(properties(f), k_stress)),
     toText(Prop(properties(f), k_comment)) >>

\* C11: in the text toCSV returns, every field of every data record is wrapped
\* in double quotes with the double quotes of its value doubled (a null or
\* undefined value gives ""), so that reading a record by the quoting rule
\* gives as many fields as the header has columns, and each value's text.
C11_FieldsQuotedAndRecovered ==
  [][/\ out'.event = "finishSurvey" =>
          \A records \in {csvRecords(out'.download)} :
            \A i \in 1..Len(rows) :
              \A record \in {records[i + 1]} :
                /\ Len(rowValues(rows[i])) = Len(csvFields(csvHeader))
                /\ ReadsAs(record, rowValues(rows[i]))
     /\ (out'.event = "exportCSV" /\ out'.error = "") =>
          \A records \in {csvRecords(out'.download)} :
            \A i \in 1..Len(features(featureCollection)) :
              \A record \in {records[i + 1]} :
                /\ Len(featureValues(features(featureCollection)[i]))
                     = Len(headers)
                /\ ReadsAs(record,
                           featureValues(features(featureCollection)[i]))]_vars

\* C11's case: an export holds a value with a double quote in it, doubled
\* between the field's own quotes
C11_Witness ==
  /\ out.event \in {"finishSurvey", "exportCSV"}
  /\ \E i \in 1..(Len(out.download) - 2) :
       /\ out.download[i] = "\""
       /\ out.download[i + 1] = "\""
       /\ out.download[i + 2] = "\""

----------------------------------------------------------------------------
(* C12: the axis order of the local-storage app. *)

\* the latitude and longitude fields of the CSV record of the i-th feature
csvLatLng(text, i) ==
  LET fields == csvFields(csvRecords(text)[i + 1])
  IN  [lat |-> fields[4], lng |-> fields[5]]

\* the feature a submit has just added is stored as [lng, lat] of the map
\* centre, and is plotted, listed and exported with the centre's latitude as
\* latitude and the centre's longitude as longitude
SubmittedAtCentre ==
  \A fs \in {features(featureCollection')} :
    \A f \in {fs[Len(fs)]} :
      /\ coordinates(f) = JArr(<<JNum(center.lng), JNum(center.lat)>>)
      /\ markersLayer'[Len(fs)] = [lat |-> JNum(center.lat), lng |-> JNum(center.lng)]
      /\ \E k \in 1..Len(listEl') :
           /\ listEl'[k].id = Prop(properties(f), k_id)
           /\ listEl'[k].lat = center.lat
           /\ listEl'[k].lng = center.lng
           /\ listEl'[k].meta = toFixed5(center.lat) \o <<",", " ">>
                                  \o toFixed5(center.lng)
      /\ \A csv \in {toCSVfc(featureCollection')} :
           /\ csv.error = ""
           /\ csvLatLng(csv.text, Len(fs))
                = [lat |-> esc(numberToString(center.lat)),
                   lng |-> esc(numberToString(center.lng))]

\* every record of an export holds position 1 of its feature's coordinates
\* as lat and position 0 as lng
ExportedByPosition ==
  \A fs \in {features(featureCollection)} :
    \A i \in 1..Len(fs) :
      csvLatLng(out'.download, i)
        = [lat |-> esc(toText(element(coordinates(fs[i]), 2))),
           lng |-> esc(toText(element(coordinates(fs[i]), 1)))]

\* the map is fitted to bounds that span the features' positions 1 as
\* latitudes and their positions 0 as longitudes
FittedByPosition ==
  \A fs \in {features(featureCollection')} :
    /\ \E i \in 1..Len(fs) : element(coordinates(fs[i]), 2).n <= center'.lat
    /\ \E i \in 1..Len(fs) : element(coordinates(fs[i]), 2).n >= center'.lat
    /\ \E i \in 1..Len(fs) : element(coordinates(fs[i]), 1).n <= center'.lng
    /\ \E i \in 1..Len(fs) : element(coordinates(fs[i]), 1).n >= center'.lng

\* C12: a submitted feature of the local-storage app is stored as
\* [longitude, latitude] of the map centre at submit time; the marker view,
\* the list view, the CSV export and the fit to the bounds at startup read
\* latitude from position 1 and longitude from position 0, so what is
\* plotted, listed and exported is the centre's latitude and longitude,
\* never swapped.
C12_AxisOrder ==
  [][/\ (out'.event = "submitted" /\ out'.error = "") => SubmittedAtCentre
     /\ (out'.event = "exportCSV" /\ out'.error = "") => ExportedByPosition
     /\ (/\ out'.event = "startup"
         /\ out'.error = ""
         /\ features(featureCollection') # <<>>) => FittedByPosition]_vars

\* a feature submitted away from the default centre has been plotted and
\* listed, and the collection has been exported
C12_Witness ==
  /\ page = "local"
  /\ out.event = "exportCSV"
  /\ out.error = ""
  /\ \E i \in 1..Len(markersLayer) :
       /\ markersLayer[i].lat # JNum(DEFAULT_CENTER.lat)
       /\ markersLayer[i].lat # markersLayer[i].lng
  /\ Len(listEl) = Len(markersLayer)

----------------------------------------------------------------------------
(* C13: markers and finite coordinates. *)

\* v is a finite number: a number, or a text that is a numeral
FiniteNumber(v) ==
  \/ v.t = "num"
  \/ v.t = "str" /\ trim(v.s) # <<>> /\ NumberIsFinite(StringToNumber(trim(v.s)))

\* the features of the local-storage app's store with finite coordinates
finiteFeatures ==
  {i \in 1..Len(features(featureCollection)) :
     LET f == features(featureCollection)[i]
     IN  /\ ~CoordinatesThrow(f)
         /\ FiniteNumber(latOf(f))
         /\ FiniteNumber(lngOf(f))}

\* the rows the viewer loaded that have finite coordinates
finiteViewerRows ==
  {i \in 1..Len(viewerRows) :
     /\ FiniteNumber(Prop(viewerRows[i], k_lat))
     /\ FiniteNumber(Prop(viewerRows[i], k_lng))}

\* the local-storage app has just rendered its store
LocalRendered ==
  /\ page = "local"
  /\ out.event \in {"startup", "submitted"}
  /\ out.error # "QuotaExceededError"

\* C13: in the marker view of the session app, of the viewer and of the
\* local-storage app, a feature whose latitude or longitude is not a finite
\* number is not plotted and does not make rendering throw: the markers on
\* the map are as many as the features of the store with finite coordinates.
C13_OnlyFinitePlotted ==
  /\ page = "session" =>
       Len(markers) = Cardinality({i \in 1..Len(rows) :
                         isFinite(rows[i].lat) /\ isFinite(rows[i].lng)})
  /\ page = "viewer" => Len(viewerMarkers) = Cardinality(finiteViewerRows)
  /\ LocalRendered =>
       /\ renderMarkersFc(features(featureCollection)).error = ""
       /\ Len(markersLayer) = Cardinality(finiteFeatures)

----------------------------------------------------------------------------
(* C14: the style of the viewer's markers. *)

\* the row a marker of the viewer was made for
rowOf(marker) ==
  viewerRows[CHOOSE i \in 1..Len(viewerRows) :
               Prop(viewerRows[i], k_id) = marker.id]

\* the marker's colour is of the palette, at an index within 0..4, and its
\* radius is within 5.5 and 11.5
WithinPalette(marker) ==
  /\ marker.style.index \in 0..40
  /\ marker.style.color \in {HAPPY_COLORS[k] : k \in 1..Len(HAPPY_COLORS)}
  /\ marker.style.radius \in 550..1150

\* the marker has the style of the rating 3 on each axis for which Unrated
\* holds of the row's value
ThreeWhen(marker, Unrated(_)) ==
  /\ Unrated(Prop(rowOf(marker), k_happy)) =>
       marker.style.index = 20 /\ marker.style.color = HAPPY_COLORS[3]
  /\ Unrated(Prop(rowOf(marker), k_greeen)) => marker.style.radius = 850

----------------------------------------------------------------------------
(* C15: the viewer's statistics. *)

Placeholder == <<"-", "-">>

\* no row the viewer loaded has a finite numeric rating under key
NoFiniteRating(key) ==
  \A i \in 1..Len(viewerRows) : ~FiniteNumber(Prop(viewerRows[i], key))

\* C15: once the viewer has loaded, an empty collection shows the total 0 and
\* the placeholder "--" for both averages; for any collection an axis on
\* which no row has a finite numeric rating shows "--", and no average shown
\* is NaN.
C15_PlaceholderAverages ==
  (page = "viewer" /\ lastSync # 0) =>
    /\ viewerRows = <<>> =>
         /\ statTotal = <<"0">>
         /\ statAvgHappy = Placeholder
         /\ statAvgGreen = Placeholder
    /\ NoFiniteRating(k_happy) => statAvgHappy = Placeholder
    /\ NoFiniteRating(k_greeen) => statAvgGreen = Placeholder
    /\ \A text \in {statAvgHappy, statAvgGreen} :
         text = Placeholder \/ IsDigit(text[1]) \/ text[1] = "-"

----------------------------------------------------------------------------
(* C16: the order of the list views. *)

\* the times of the cards in #list, from the top
cardTimes ==
  IF page = "local"
    THEN [i \in 1..Len(listEl) |-> listEl[i].timestamp.n]
    ELSE [i \in 1..Len(cards) |-> parseDate(cards[i].timestamp)]

\* C16: after any sequence of submits and deletes, the list view of the
\* session app and that of the local-storage app show their cards newest
\* first: the timestamps never increase from one card to the next.
C16_NewestFirst ==
  \A i \in 1..(Len(cardTimes) - 1) : cardTimes[i] >= cardTimes[i + 1]

\* the local-storage app lists a feature above one stored before it
C16_Witness ==
  /\ page = "local"
  /\ Len(listEl) >= 2
  /\ listEl[1].timestamp.n > listEl[2].timestamp.n
  /\ listEl[1].id = Prop(properties(features(featureCollection)[2]), k_id)

----------------------------------------------------------------------------
(* C17: the form page returns to Idle. *)

\* Idle: no submission is under way, the button is enabled, a submit would
\* not be ignored
Idle ==
  /\ ~isSubmitting
  /\ ~btnSubmit.disabled
  /\ SubmitDecision # "ignored"

\* C17: on the form page, every submission that has set isSubmitting returns
\* to Idle once its insert settles, whether the insert succeeded, returned an
\* error or threw: isSubmitting is false and the button is enabled again, so
\* that a later submit is accepted.
C17_SubmittingReturnsToIdle == (page = "form" /\ isSubmitting) ~> Idle

\* a submission whose insert failed has returned to Idle
C17_Witness ==
  /\ page = "form"
  /\ out.event = "submitFailed"
  /\ pendingInserts = {}
  /\ Idle

----------------------------------------------------------------------------
(* C18: the viewer's loads end. *)

\* C18: in the viewer, when the select of a loadRows call that set the status
\* to "loading" has settled, the status is "ok" or "error" (never still
\* "loading"), and no exception has left the load, whether the select
\* resolved without error, resolved with an error or was rejected.
C18_LoadEndsOkOrError ==
  (page = "viewer" /\ out.event = "loaded") =>
    /\ statusDot.state \in {"ok", "error"}
    /\ out.error = ""

----------------------------------------------------------------------------
(* C19: the durable copy and the collection in memory. *)

\* C19: in the local-storage app, after every submit, delete and clear-all,
\* the item under the storage key holds the same features as the feature
\* collection in memory, whether the storage write succeeded or threw.
C19_DurableEqualsMemory ==
  (page = "local" /\ out.event \in {"submitted", "deleted", "cleared"}) =>
    features(loadFeatureCollection(storage)) = features(featureCollection)

----------------------------------------------------------------------------
(* C20: the crosshair is updated once per frame at most. *)

\* C20: however many "move" notifications arrive, one animation-frame
\* callback at most is pending, and between two consecutive frames
\* syncCenterSelection runs once at most, the calls made directly from
\* "moveend" and "zoomend" counted.
C20_OncePerFrame ==
  /\ rafCallbacks <= 1
  /\ syncs <= 1

----------------------------------------------------------------------------
(* The transient status and the submit notice of the form page. *)

\* the only timeout a timer may have pending is the one whose handle it keeps
LatestOnly(timer) == timer.pending \subseteq {timer.id}

\* a step that fires the timeout set last, which leaves none pending
FiresLatest(timer, after) ==
  /\ after.id = timer.id
  /\ timer.pending = {timer.id}
  /\ after.pending = {}

\* C21: after a flash the indicator returns to the base status at some time,
\* and the submit notice is hidden again at some time; each of the two timers
\* has at most one timeout pending, that of the latest flash, so that while a
\* flash is pending the indicator changes only with a new flash or when the
\* timeout of the latest flash fires, and the notice is hidden only when the
\* timeout of the latest notice fires.
C21_FlashReturnsToBase ==
  /\ [](LatestOnly(statusTimer) /\ LatestOnly(noticeTimer))
  /\ [][(statusTimer.pending # {} /\ status' # status) =>
          \/ statusTimer'.id # statusTimer.id
          \/ FiresLatest(statusTimer, statusTimer')]_vars
  /\ [][(submitNotice.visible /\ ~submitNotice'.visible) =>
          FiresLatest(noticeTimer, noticeTimer')]_vars
  /\ (statusTimer.pending # {} ~> (status = baseStatus /\ statusTimer.pending = {}))
  /\ (submitNotice.visible ~> ~submitNotice.visible)

\* C21's case: a second flash and a second notice have replaced the first
\* ones, and their timeouts are the only ones pending
C21_Witness ==
  /\ page = "form"
  /\ statusTimer.id >= 2
  /\ statusTimer.pending = {statusTimer.id}
  /\ status # baseStatus
  /\ noticeTimer.id >= 2
  /\ noticeTimer.pending = {noticeTimer.id}
  /\ submitNotice.visible

----------------------------------------------------------------------------
(* The identifier of a committed row. *)

\* C22: whenever a successful insert returns the identifier the backend
\* assigned, the row committed at the head of the store carries that
\* identifier; the time-based identifier is used only when none is returned.
C22_IdIsReturnedId ==
  [][\A p \in pendingInserts :
       InsertSettle(p, "ok", TRUE) =>
         /\ rows' # <<>>
         /\ rows'[1].id = nextId]_vars

----------------------------------------------------------------------------
(* Finish Survey. *)

----------------------------------------------------------------------------
(* Delete removes the feature of the card. *)

\* the store without its k-th feature
without(rs, k) == SubSeq(rs, 1, k - 1) \o SubSeq(rs, k + 1, Len(rs))

\* C24: when the remote delete a card's handler awaited has succeeded, the
\* store loses the feature of that card and nothing else: it is the store as
\* it was without one feature, which is the card's, and it is unchanged when
\* the card's feature has left the store while the delete was in flight.
C24_DeletesTheCardsFeature ==
  [][\A d \in pendingDeletes :
       DeleteSettle(d, "ok") =>
         IF \E k \in 1..Len(rows) : rows[k] = d.row
           THEN \E k \in 1..Len(rows) :
                  /\ rows[k] = d.row
                  /\ rows' = without(rows, k)
           ELSE rows' = rows]_vars

----------------------------------------------------------------------------
(* Overlapping loads of the viewer. *)

\* the loadRows call issued last among those that have settled
latestLoad ==
  CHOOSE l \in settledLoads : \A other \in settledLoads : other.n <= l.n

\* C25: when several loads have been issued and all have settled, and the
\* load issued last returned rows, the markers, the list and the statistics
\* are those of the rows that load returned.
C25_ShowsLatestLoad ==
  ( /\ page = "viewer"
    /\ pendingLoads = {}
    /\ Cardinality(settledLoads) >= 2
    /\ ~latestLoad.returned.failed ) =>
    \A shown \in {latestLoad.returned.rows} :
      /\ viewerMarkers = renderMarkersRows(shown)
      /\ viewerCards = renderListRows(shown).cards
      /\ viewerCount = renderListRows(shown).count
      /\ statTotal = updateStats(shown).total
      /\ statAvgHappy = updateStats(shown).avgHappy
      /\ statAvgGreen = updateStats(shown).avgGreen

----------------------------------------------------------------------------
(* The submit button while a submission is in flight. *)

\* C26: on the form page, whenever a submission is in flight the submit
\* button is disabled and labelled "Saving...", also when the timeout that
\* restores the label after an earlier submission fires meanwhile.
C26_SavingWhileSubmitting ==
  (page = "form" /\ isSubmitting) =>
    /\ btnSubmit.disabled
    /\ btnSubmit.text = "Saving..."

=============================================================================
